---- MODULE Spec2Model ----
(***************************************************************************)
(* Wedding vendor contract builder: the contract API (Next.js route        *)
(* handlers behind the authentication middleware) over the JSON file       *)
(* storage of DataService.                                                 *)
(*                                                                         *)
(* A behaviour is a sequence of HTTP exchanges.  One action per route      *)
(* handler takes a request, runs the middleware and the handler on the     *)
(* stored contracts and leaves the response in `response`; Deliver hands   *)
(* the response back and makes the server ready for the next request.      *)
(***************************************************************************)
EXTENDS Integers, Sequences, FiniteSets, TLC

VARIABLES
    contracts,   \* content of contracts.json: a sequence of Contract records
    clock,       \* server time, read by new Date()
    request,     \* the request being answered
    response,    \* the answer to it
    pc,          \* "idle": waiting for a request, "done": response written
    openRouter,  \* the AI service: whether a key is configured, its last answer
    workers,     \* the requests the server handles at the same time
    jar,         \* the browser's session cookie
    authStore,   \* useAuthStore: user, isAuthenticated, isLoading
    guard,       \* the mounted AuthGuard: its page, what it shows, its redirect
    pending,     \* calls of the browser that wait for the server's answer
    contractStore, \* useContractStore: contracts, isLoading, isContractLoading
    page,        \* the mounted edit page: its contract id and its state
    form,        \* the mounted ContractEditForm: its state
    workflow     \* the mounted ContractSigningWorkflow: its state

server == <<contracts, clock, request, response, pc, openRouter, workers>>
browser == <<jar, authStore, guard, pending, contractStore, page, form, workflow>>
vars == <<server, browser>>

(***************************************************************************)
(* Bounds of the model.                                                    *)
(***************************************************************************)
MaxContracts == 2   \* records contracts.json may hold
MaxClock == 4       \* the server clock runs over 0..MaxClock; a write to the
                    \* file takes one unit of it
MaxWorkers == 2     \* requests the server handles at the same time

(***************************************************************************)
(* JavaScript values.  Every value has the same shape: a type tag, the     *)
(* characters of a string, the value of a number.                          *)
(***************************************************************************)
Undefined == [t |-> "undefined", s |-> <<>>, n |-> 0]
Null == [t |-> "null", s |-> <<>>, n |-> 0]
NaN == [t |-> "NaN", s |-> <<>>, n |-> 0]
Str(chars) == [t |-> "string", s |-> chars, n |-> 0]
Num(k) == [t |-> "number", s |-> <<>>, n |-> k]

\* the array [], as JSON.parse makes it of a body
EmptyArray == [t |-> "array", s |-> <<>>, n |-> 0]

IsString(v) == v.t = "string"

\* JavaScript truthiness: undefined, null, NaN, 0 and "" are falsy; an
\* array is an object and truthy, also when it has no elements
Truthy(v) ==
    CASE v.t = "string" -> v.s # <<>>
      [] v.t = "number" -> v.n # 0
      [] v.t = "array" -> TRUE
      [] OTHER -> FALSE

Whitespace == {" "}

RECURSIVE TrimStart(_)
TrimStart(chars) ==
    IF chars # <<>> /\ Head(chars) \in Whitespace THEN TrimStart(Tail(chars)) ELSE chars

RECURSIVE TrimEnd(_)
TrimEnd(chars) ==
    IF chars # <<>> /\ chars[Len(chars)] \in Whitespace
    THEN TrimEnd(SubSeq(chars, 1, Len(chars) - 1))
    ELSE chars

\* String.prototype.trim
Trim(chars) == TrimEnd(TrimStart(chars))

Digits == <<"0", "1", "2", "3", "4", "5", "6", "7", "8", "9">>
IsDigit(c) == \E i \in 1..10 : Digits[i] = c
DigitValue(c) == (CHOOSE i \in 1..10 : Digits[i] = c) - 1

RECURSIVE DigitPrefix(_, _)
DigitPrefix(chars, acc) ==
    IF chars # <<>> /\ IsDigit(Head(chars))
    THEN DigitPrefix(Tail(chars), acc * 10 + DigitValue(Head(chars)))
    ELSE acc

\* parseFloat on whole numbers: leading blanks, an optional sign, the longest
\* prefix of digits; NaN when there is no digit
ParseFloat(v) ==
    IF v.t = "number" \/ v.t = "NaN" THEN v
    ELSE IF v.t # "string" THEN NaN
    ELSE LET body == TrimStart(v.s)
             neg == body # <<>> /\ Head(body) = "-"
             rest == IF neg THEN Tail(body) ELSE body
         IN IF rest = <<>> \/ ~IsDigit(Head(rest)) THEN NaN
            ELSE Num((IF neg THEN -1 ELSE 1) * DigitPrefix(rest, 0))

(***************************************************************************)
(* Dates.  new Date(string) knows the date strings below; any other string *)
(* is an Invalid Date.  Today is the day the server runs.                  *)
(***************************************************************************)
Today == 5
KnownDates == {<<"d", "3">>, <<"d", "5">>, <<"d", "8">>, <<"d", "9">>}
NewDate(chars) == IF chars \in KnownDates THEN Num(DigitValue(chars[2])) ELSE NaN

(***************************************************************************)
(* Validation (lib/validation).  A validator applied to a value that has   *)
(* no trim method throws a TypeError.                                      *)
(***************************************************************************)
ContractFields == {"clientName", "eventDate", "eventVenue", "servicePackage", "amount", "content"}

\* validateRequired: "valid", "invalid" or "throws"
validateRequired(v) ==
    IF ~IsString(v) THEN "throws"
    ELSE IF Trim(v.s) = <<>> THEN "invalid" ELSE "valid"

validateEventDate(v) ==
    IF ~IsString(v) THEN "throws"
    ELSE IF Trim(v.s) = <<>> THEN "invalid"
    ELSE LET date == NewDate(v.s)
         IN IF date.t = "NaN" THEN "invalid"
            ELSE IF date.n < Today THEN "invalid" ELSE "valid"

validateAmount(v) ==
    LET numAmount == IF IsString(v) THEN ParseFloat(v) ELSE v
    IN IF numAmount.t = "NaN" THEN "invalid"
       ELSE IF numAmount.t = "number" /\ numAmount.n < 0 THEN "invalid"
       ELSE IF numAmount.t = "number" /\ numAmount.n = 0 THEN "invalid"
       ELSE "valid"

validateField(f, v) ==
    CASE f = "eventDate" -> validateEventDate(v)
      [] f = "amount" -> validateAmount(v)
      [] OTHER -> validateRequired(v)

\* validateContractData: only the fields that are not undefined are looked at.
\* The result: whether a validator threw, and the fields with an error.
validateContractData(data) ==
    LET looked == {f \in ContractFields : data[f] # Undefined}
    IN [throws |-> \E f \in looked : validateField(f, data[f]) = "throws",
        errors |-> {f \in looked : validateField(f, data[f]) = "invalid"}]

validateNewContract(data) == validateContractData(data)

(***************************************************************************)
(* Contract records and the JSON file.                                     *)
(***************************************************************************)
\* new Date().toISOString() at server time k
toISOString(k) == Str(<<"T", Digits[k + 1]>>)

NoSignature == Undefined
Signature(type, data, timestamp) == [type |-> type, data |-> data, timestamp |-> timestamp]

StoredFields == ContractFields \cup {"id", "vendorId", "status", "signature", "createdAt", "updatedAt"}

\* JSON.stringify followed by JSON.parse: NaN is written as null (a key whose
\* value is undefined is dropped and reads back as undefined)
JsonValue(v) == IF v = NaN THEN Null ELSE v
JsonRecord(c) == [f \in DOMAIN c |-> JsonValue(c[f])]

\* generateId('contract'): an id no stored contract has
ContractIds == <<"c1", "c2", "c3", "c4">>
generateId(n) == Str(<<ContractIds[n]>>)

\* contracts.findIndex(c => c.id === contractId), 0 for -1
findIndex(list, contractId) ==
    IF \E i \in 1..Len(list) : list[i].id = contractId
    THEN CHOOSE i \in 1..Len(list) :
            /\ list[i].id = contractId
            /\ \A j \in 1..(i - 1) : list[j].id # contractId
    ELSE 0

\* DataService.getContract
getContract(list, contractId) == findIndex(list, contractId)

\* the spread that stamps createdAt as well
SpreadStamped(c, updates, now) ==
    [f \in StoredFields |->
        IF f \in {"updatedAt", "createdAt"} THEN now
        ELSE IF f \in DOMAIN updates THEN updates[f] ELSE c[f]]

\* { ...contract, ...updates, updatedAt: now }
Spread(c, updates, now) ==
    [f \in StoredFields |->
        IF f = "updatedAt" THEN now
        ELSE IF f \in DOMAIN updates THEN updates[f] ELSE c[f]]

\* DataService.updateContract: the file content after the write
updateContract(list, contractId, updates, now) ==
    LET i == findIndex(list, contractId)
    IN [list EXCEPT ![i] = JsonRecord(Spread(list[i], updates, now))]

\* saveSignature that stores the signature and forgets the status
saveSignatureOnly(list, contractId, signature, now) ==
    updateContract(list, contractId, [signature |-> signature], now)

\* DataService.saveSignature
saveSignature(list, contractId, signature, now) ==
    updateContract(list, contractId,
                   [signature |-> signature, status |-> Str(<<"signed">>)], now)

\* deleteContract that removes the record from the file
deleteContractForGood(list, contractId, now) ==
    SelectSeq(list, LAMBDA c : c.id # contractId)

\* DataService.deleteContract
deleteContract(list, contractId, now) ==
    updateContract(list, contractId, [status |-> Str(<<"deleted">>)], now)

\* createContract that writes the new contract as the whole file
createContractAlone(list, contractData, now) ==
    <<JsonRecord([f \in StoredFields |->
                    CASE f = "id" -> generateId(Len(list) + 1)
                      [] f \in {"createdAt", "updatedAt"} -> now
                      [] f = "signature" -> NoSignature
                      [] OTHER -> contractData[f]])>>

\* DataService.createContract: the file content after the write
createContract(list, contractData, now) ==
    LET newContract ==
            [f \in StoredFields |->
                CASE f = "id" -> generateId(Len(list) + 1)
                  [] f \in {"createdAt", "updatedAt"} -> now
                  [] f = "signature" -> NoSignature
                  [] OTHER -> contractData[f]]
    IN Append(list, JsonRecord(newContract))

\* getContractsByVendor that does not leave out the deleted contracts
getContractsByVendorAll(list, vendorId) ==
    SelectSeq(list, LAMBDA c : c.vendorId = vendorId)

\* DataService.getContractsByVendor
getContractsByVendor(list, vendorId) ==
    SelectSeq(list, LAMBDA c : c.vendorId = vendorId /\ c.status # Str(<<"deleted">>))

(***************************************************************************)
(* Requests.                                                               *)
(***************************************************************************)
BodyKeys == ContractFields \cup {"type", "data", "timestamp", "status", "vendorType", "vendorName",
                                 "email", "password", "id", "vendorId", "signature",
                                 "createdAt", "updatedAt"}

NoCookie == [present |-> FALSE, parsable |-> FALSE, object |-> FALSE, id |-> Undefined]
GarbageCookie == [present |-> TRUE, parsable |-> FALSE, object |-> FALSE, id |-> Undefined]
NullCookie == [present |-> TRUE, parsable |-> TRUE, object |-> FALSE, id |-> Undefined]
SessionCookie(id) == [present |-> TRUE, parsable |-> TRUE, object |-> TRUE, id |-> id]

MalformedBody == [kind |-> "malformed", fields |-> [k \in BodyKeys |-> Undefined]]
NullBody == [kind |-> "null", fields |-> [k \in BodyKeys |-> Undefined]]
ObjectBody(fields) == [kind |-> "object", fields |-> fields]
EmptyBody == ObjectBody([k \in BodyKeys |-> Undefined])

Req(method, path, cookie, body) ==
    [method |-> method, path |-> path, cookie |-> cookie, body |-> body]
NoRequest == Req("", <<>>, NoCookie, EmptyBody)

(***************************************************************************)
(* Responses.                                                              *)
(***************************************************************************)
Resp(status, success, error, data, id, errors) ==
    [status |-> status, success |-> success, error |-> error,
     data |-> data, id |-> id, errors |-> errors, setCookie |-> <<>>]
Failure(status, error) == Resp(status, FALSE, error, <<>>, Undefined, {})
Success(status) == Resp(status, TRUE, "", <<>>, Undefined, {})
SuccessData(data) == Resp(200, TRUE, "", data, Undefined, {})
Created(id) == Resp(201, TRUE, "", <<>>, id, {})
ValidationFailed(errors) == Resp(400, FALSE, "Validation failed", <<>>, Undefined, errors)
NoResponse == Resp(0, FALSE, "", <<>>, Undefined, {})

\* what a handler leaves behind: its response and the content of the file
Out(resp, list) == [response |-> resp, contracts |-> list]

(***************************************************************************)
(* middleware.ts                                                           *)
(***************************************************************************)
\* the last path segments of the model that end in .svg, .png, .jpg, .jpeg,
\* .gif or .webp
ImageNames == {"logo.png"}

\* config.matcher: the middleware runs on every path that does not end in an
\* image extension (nor is a static file of the framework)
MatcherMatches(path) == path = <<>> \/ path[Len(path)] \notin ImageNames

\* pathname.startsWith(route), on path segments
StartsWith(path, route) ==
    /\ Len(path) >= Len(route)
    /\ SubSeq(path, 1, Len(route)) = route

publicRoutes == {<<"login">>}
publicApiRoutes == {<<"api", "auth", "login">>}

\* middleware that checks the cookie of page requests only
middlewarePagesOnly(req) ==
    LET isPublicRoute == req.path \in publicRoutes
    IN IF isPublicRoute \/ StartsWith(req.path, <<"api">>) THEN "next"
       ELSE IF ~req.cookie.present THEN "redirect"
       ELSE IF req.cookie.parsable THEN "next" ELSE "redirect"

\* "next", "redirect" or the response of the middleware
middleware(req) ==
    LET isPublicRoute == req.path \in publicRoutes
        isPublicApiRoute == \E route \in publicApiRoutes : StartsWith(req.path, route)
    IN IF isPublicRoute \/ isPublicApiRoute THEN "next"
       ELSE IF StartsWith(req.path, <<"api">>)
            THEN IF ~req.cookie.present THEN "Not authenticated"
                 ELSE IF req.cookie.parsable THEN "next" ELSE "Invalid session"
       ELSE IF ~req.cookie.present THEN "redirect"
       ELSE IF req.cookie.parsable THEN "next" ELSE "redirect"

\* the outcome of the middleware for a request: "next" when it does not run
Gate(req) == IF MatcherMatches(req.path) THEN middleware(req) ELSE "next"

(***************************************************************************)
(* Route handlers.  Each is the handler's outcome for a request on the     *)
(* file content `list` at server time `k`; a throw inside the handler's    *)
(* try block is answered 500 with the handler's message.                   *)
(***************************************************************************)
\* JSON.parse(sessionCookie.value) and session.id both succeed
SessionReadable(cookie) == cookie.parsable /\ cookie.object

\* await request.json() and the destructuring of its result both succeed
BodyReadable(body) == body.kind = "object"

Draft == Str(<<"draft">>)
Signed == Str(<<"signed">>)
Deleted == Str(<<"deleted">>)

\* BelongsTo that only asks for a session with an id
BelongsToAnySession(contract, vendorId) == vendorId # Undefined

\* "Verify contract belongs to the authenticated vendor"
BelongsTo(contract, vendorId) == contract.vendorId = vendorId

\* EditRefused that looks for the wrong status
EditRefusedWhenDeleted(contract) == contract.status = Deleted

\* "Prevent editing signed contracts"
EditRefused(contract) == contract.status = Signed

\* AlreadySigned that never finds a contract signed
AlreadySignedNever(contract) == FALSE

\* "Check if contract is already signed"
AlreadySigned(contract) == contract.status = Signed

\* GET /api/contracts
ListGET(req, list) ==
    IF ~req.cookie.present THEN Out(Failure(401, "Not authenticated"), list)
    ELSE IF ~SessionReadable(req.cookie) THEN Out(Failure(500, "Failed to fetch contracts"), list)
    ELSE Out(SuccessData(getContractsByVendor(list, req.cookie.id)), list)

\* POST /api/contracts
CreatePOST(req, list, k) ==
    IF ~req.cookie.present THEN Out(Failure(401, "Not authenticated"), list)
    ELSE IF ~SessionReadable(req.cookie) \/ ~BodyReadable(req.body)
    THEN Out(Failure(500, "Failed to create contract"), list)
    ELSE LET vendorId == req.cookie.id
             body == req.body.fields
             validation == validateNewContract(body)
         IN IF validation.throws THEN Out(Failure(500, "Failed to create contract"), list)
            ELSE IF validation.errors # {} THEN Out(ValidationFailed(validation.errors), list)
            ELSE LET contractData ==
                        [f \in ContractFields \cup {"vendorId", "status"} |->
                            CASE f = "vendorId" -> vendorId
                              [] f = "status" -> Draft
                              [] f = "amount" -> ParseFloat(body.amount)
                              [] OTHER -> body[f]]
                     written == createContract(list, contractData, toISOString(k))
                 IN Out(Created(written[Len(written)].id), written)

\* GET /api/contracts/[id]
ContractGET(req, list) ==
    IF ~req.cookie.present THEN Out(Failure(401, "Not authenticated"), list)
    ELSE IF ~SessionReadable(req.cookie) THEN Out(Failure(500, "Failed to fetch contract"), list)
    ELSE LET vendorId == req.cookie.id
             i == getContract(list, Str(<<req.path[3]>>))
         IN IF i = 0 THEN Out(Failure(404, "Contract not found"), list)
            ELSE IF ~BelongsTo(list[i], vendorId) THEN Out(Failure(403, "Access denied"), list)
            ELSE Out(SuccessData(<<list[i]>>), list)

\* updateData that takes every key of a contract the body holds
UpdateDataAnyKey(body) ==
    LET provided == {f \in StoredFields \ {"updatedAt"} : body[f] # Undefined}
    IN [f \in provided |-> IF f = "amount" THEN ParseFloat(body[f]) ELSE body[f]]

\* the updateData object PUT builds from the request body
UpdateData(body) ==
    LET provided == {f \in ContractFields : body[f] # Undefined}
    IN [f \in provided |-> IF f = "amount" THEN ParseFloat(body[f]) ELSE body[f]]

\* validateContractData reads a field that updateData lacks as undefined
Completed(updateData) ==
    [f \in ContractFields |-> IF f \in DOMAIN updateData THEN updateData[f] ELSE Undefined]

\* PUT /api/contracts/[id]
ContractPUT(req, list, k) ==
    IF ~req.cookie.present THEN Out(Failure(401, "Not authenticated"), list)
    ELSE IF ~SessionReadable(req.cookie) THEN Out(Failure(500, "Failed to update contract"), list)
    ELSE LET vendorId == req.cookie.id
             contractId == Str(<<req.path[3]>>)
             i == getContract(list, contractId)
         IN IF i = 0 THEN Out(Failure(404, "Contract not found"), list)
            ELSE IF ~BelongsTo(list[i], vendorId) THEN Out(Failure(403, "Access denied"), list)
            ELSE IF EditRefused(list[i])
            THEN Out(Failure(400, "Cannot edit signed contracts"), list)
            ELSE IF ~BodyReadable(req.body)
            THEN Out(Failure(500, "Failed to update contract"), list)
            ELSE LET updateData == UpdateData(req.body.fields)
                     validation == validateContractData(Completed(updateData))
                 IN IF validation.throws
                    THEN Out(Failure(500, "Failed to update contract"), list)
                    ELSE IF validation.errors # {}
                    THEN Out(ValidationFailed(validation.errors), list)
                    ELSE Out(Success(200),
                             updateContract(list, contractId, updateData, toISOString(k)))

\* DELETE /api/contracts/[id]
ContractDELETE(req, list, k) ==
    IF ~req.cookie.present THEN Out(Failure(401, "Not authenticated"), list)
    ELSE IF ~SessionReadable(req.cookie) THEN Out(Failure(500, "Failed to delete contract"), list)
    ELSE LET vendorId == req.cookie.id
             contractId == Str(<<req.path[3]>>)
             i == getContract(list, contractId)
         IN IF i = 0 THEN Out(Failure(404, "Contract not found"), list)
            ELSE IF ~BelongsTo(list[i], vendorId) THEN Out(Failure(403, "Access denied"), list)
            ELSE Out(Success(200), deleteContract(list, contractId, toISOString(k)))

SignatureTypes == {Str(<<"drawn">>), Str(<<"typed">>)}

\* POST /api/contracts/[id]/sign
SignPOST(req, list, k) ==
    IF ~req.cookie.present THEN Out(Failure(401, "Not authenticated"), list)
    ELSE IF ~SessionReadable(req.cookie) THEN Out(Failure(500, "Failed to sign contract"), list)
    ELSE LET vendorId == req.cookie.id
             contractId == Str(<<req.path[3]>>)
             i == getContract(list, contractId)
         IN IF i = 0 THEN Out(Failure(404, "Contract not found"), list)
            ELSE IF ~BelongsTo(list[i], vendorId) THEN Out(Failure(403, "Access denied"), list)
            ELSE IF AlreadySigned(list[i])
            THEN Out(Failure(400, "Contract is already signed"), list)
            ELSE IF ~BodyReadable(req.body)
            THEN Out(Failure(500, "Failed to sign contract"), list)
            ELSE LET type == req.body.fields.type
                     data == req.body.fields.data
                 IN IF ~Truthy(type) \/ ~Truthy(data)
                    THEN Out(Failure(400, "Invalid signature data"), list)
                    ELSE IF type \notin SignatureTypes
                    THEN Out(Failure(400, "Invalid signature type"), list)
                    ELSE Out(Success(200),
                             saveSignature(list, contractId,
                                           Signature(type, data, toISOString(k)),
                                           toISOString(k)))

\* the object JSON.parse makes of a session cookie
CookieContent(cookie) == IF "user" \in DOMAIN cookie THEN cookie.user ELSE [id |-> cookie.id]

\* GET /api/auth/me: the session cookie's content is the user
MeGET(req, list) ==
    IF ~req.cookie.present THEN Out(Failure(401, "Not authenticated"), list)
    ELSE IF ~req.cookie.parsable THEN Out(Failure(401, "Invalid session"), list)
    ELSE Out(SuccessData(IF req.cookie.object THEN <<CookieContent(req.cookie)>> ELSE <<>>), list)

\* POST /api/auth/logout: clears the session cookie, whoever asks
LogoutPOST(req, list) == Out([Success(200) EXCEPT !.setCookie = <<NoCookie>>], list)

\* GET /api/ai-assist: the status of the AI endpoint, whoever asks
AiAssistGET(req, list) == Out(Success(200), list)

(***************************************************************************)
(* The requests of the model.                                              *)
(***************************************************************************)
Vendors == {Str(<<"v1">>), Str(<<"v2">>)}
Sessions == {SessionCookie(v) : v \in Vendors}
BrokenCookies == {NoCookie, GarbageCookie, NullCookie}

\* the ids a request may name: those generateId hands out and a name that is
\* no contract's id
Targets == {ContractIds[i] : i \in 1..MaxContracts} \cup ImageNames

MePath == <<"api", "auth", "me">>
LogoutPath == <<"api", "auth", "logout">>
AiAssistPath == <<"api", "ai-assist">>
ListPath == <<"api", "contracts">>
ContractPath(id) == <<"api", "contracts", id>>
SignPath(id) == <<"api", "contracts", id, "sign">>

Fields(assigned) == [k \in BodyKeys |-> IF k \in DOMAIN assigned THEN assigned[k] ELSE Undefined]

FirstDetails ==
    [clientName |-> Str(<<"a">>), eventDate |-> Str(<<"d", "8">>),
     eventVenue |-> Str(<<"a">>), servicePackage |-> Str(<<"a">>),
     amount |-> Str(<<"1", "0">>), content |-> Str(<<"a">>)]
\* new values for the six fields, and a status the client has no say in
SecondDetails ==
    [clientName |-> Str(<<"b">>), eventDate |-> Str(<<"d", "9">>),
     eventVenue |-> Str(<<"b">>), servicePackage |-> Str(<<"b">>),
     amount |-> Str(<<"2", "5", "x">>), content |-> Str(<<"b">>), status |-> Draft]

CreateBodies ==
    {ObjectBody(Fields(FirstDetails)),
     ObjectBody(Fields([FirstDetails EXCEPT !.clientName = Str(<<" ">>)])),
     ObjectBody(Fields([FirstDetails EXCEPT !.eventDate = Str(<<"d", "3">>)])),
     ObjectBody(Fields([FirstDetails EXCEPT !.amount = Str(<<"-", "1">>)])),
     ObjectBody(Fields([FirstDetails EXCEPT !.content = Num(7)])),
     NullBody}

UpdateBodies ==
    {ObjectBody(Fields(SecondDetails)),
     ObjectBody(Fields([content |-> Str(<<" ">>)])),
     ObjectBody(Fields([eventDate |-> Str(<<"s", "o", "o", "n">>)])),
     ObjectBody(Fields([amount |-> Num(0)])),
     ObjectBody(Fields([eventVenue |-> Null])),
     NullBody, MalformedBody}

SignBodies ==
    {ObjectBody(Fields([type |-> Str(<<"drawn">>), data |-> Str(<<"J">>)])),
     ObjectBody(Fields([type |-> Str(<<"typed">>), data |-> Str(<<"K">>),
                        timestamp |-> Str(<<"T", "9">>)])),
     ObjectBody(Fields([type |-> Str(<<"stamp">>), data |-> Str(<<"J">>)])),
     ObjectBody(Fields([type |-> Str(<<"typed">>), data |-> Str(<<>>)])),
     ObjectBody(Fields([data |-> Str(<<"J">>)])),
     EmptyBody, MalformedBody}

\* a broken cookie comes with the first body of each kind
BodiesFor(cookie, bodies, first) == IF cookie \in Sessions THEN bodies ELSE {first}

Cookies == Sessions \cup BrokenCookies

ListRequests == {Req("GET", ListPath, c, EmptyBody) : c \in Cookies}
CreateRequests ==
    UNION {{Req("POST", ListPath, c, b) :
                b \in BodiesFor(c, CreateBodies, ObjectBody(Fields(FirstDetails)))} : c \in Cookies}
GetRequests == {Req("GET", ContractPath(id), c, EmptyBody) : id \in Targets, c \in Cookies}
UpdateRequests ==
    UNION {{Req("PUT", ContractPath(id), c, b) :
                id \in Targets, b \in BodiesFor(c, UpdateBodies, ObjectBody(Fields(SecondDetails)))} :
           c \in Cookies}
DeleteRequests == {Req("DELETE", ContractPath(id), c, EmptyBody) : id \in Targets, c \in Cookies}
SignRequests ==
    UNION {{Req("POST", SignPath(id), c, b) :
                id \in Targets,
                b \in BodiesFor(c, SignBodies,
                                ObjectBody(Fields([type |-> Str(<<"drawn">>), data |-> Str(<<"J">>)])))} :
           c \in Cookies}

MeRequests == {Req("GET", MePath, c, EmptyBody) : c \in Cookies}
LogoutRequests == {Req("POST", LogoutPath, c, EmptyBody) : c \in Cookies}
AiAssistRequests == {Req("GET", AiAssistPath, c, EmptyBody) : c \in Cookies}

\* the requests the server may be handling at a time
Workers == 1..MaxWorkers

\* a worker that handles no request
IdleWorker == [stage |-> "idle", job |-> NoRequest, buffer |-> <<>>, response |-> NoResponse]

\* OpenRouter was not asked
NoAnswer == [kind |-> "none", content |-> Undefined]

(***************************************************************************)
(* The browser: the auth store and the AuthGuard component.                *)
(***************************************************************************)
\* the state useAuthStore is created with
initialAuthState == [user |-> Null, isAuthenticated |-> FALSE, isLoading |-> FALSE]

\* no AuthGuard is mounted
NoGuard == [page |-> "", view |-> "", pushed |-> <<>>]

\* the state useContractStore is created with
initialState == [contracts |-> <<>>, isLoading |-> FALSE, isContractLoading |-> FALSE]

\* no edit page is mounted
NoPage == [contractId |-> "", contract |-> <<>>, isInitialLoading |-> FALSE, replaced |-> <<>>]

\* no ContractSigningWorkflow is mounted
NoWorkflow ==
    [mounted |-> FALSE, currentStep |-> 0, isSignatureModalOpen |-> FALSE,
     isConfirmModalOpen |-> FALSE, pendingSignature |-> <<>>, error |-> <<>>,
     timer |-> FALSE]

\* no ContractEditForm is mounted
NoForm ==
    [shown |-> FALSE, formData |-> <<>>, errors |-> {}, isSubmitting |-> FALSE,
     showSigningWorkflow |-> FALSE, updatedContract |-> <<>>]

(***************************************************************************)
(* The server.                                                             *)
(***************************************************************************)
Init ==
    /\ contracts = <<>>
    /\ clock = 0
    /\ request = NoRequest
    /\ response = NoResponse
    /\ pc = "idle"
    /\ openRouter = [apiKey |-> FALSE, answer |-> NoAnswer]
    /\ workers = [w \in Workers |-> IdleWorker]
    /\ jar = NoCookie
    /\ authStore = initialAuthState
    /\ guard = NoGuard
    /\ pending = {}
    /\ contractStore = initialState
    /\ page = NoPage
    /\ form = NoForm
    /\ workflow = NoWorkflow

\* the answer of the middleware when it does not let the request through
GateResponse(gate) ==
    IF gate = "redirect" THEN Resp(307, FALSE, "", <<>>, Undefined, {})
    ELSE Failure(401, gate)

\* One exchange: the middleware, then the route handler.  A handler that
\* writes the file needs a unit of time for it, so the timestamps of
\* successive writes differ and MaxClock bounds the writes of a behaviour.
Answer(req, handled) ==
    LET gate == Gate(req)
        out == IF gate = "next" THEN handled ELSE Out(GateResponse(gate), contracts)
        wrote == out.contracts # contracts
    IN /\ pc = "idle"
       /\ wrote => clock < MaxClock
       /\ Len(out.contracts) <= MaxContracts
       /\ request' = req
       /\ response' = out.response
       /\ contracts' = out.contracts
       /\ clock' = IF wrote THEN clock + 1 ELSE clock
       /\ pc' = "done"

Exchange(req, handled) == Answer(req, handled) /\ UNCHANGED <<openRouter, workers, browser>>

ListContracts == \E req \in ListRequests : Exchange(req, ListGET(req, contracts))
CreateContract == \E req \in CreateRequests : Exchange(req, CreatePOST(req, contracts, clock))
GetContract == \E req \in GetRequests : Exchange(req, ContractGET(req, contracts))
UpdateContract == \E req \in UpdateRequests : Exchange(req, ContractPUT(req, contracts, clock))
DeleteContract == \E req \in DeleteRequests : Exchange(req, ContractDELETE(req, contracts, clock))
SignContract == \E req \in SignRequests : Exchange(req, SignPOST(req, contracts, clock))
Me == \E req \in MeRequests : Exchange(req, MeGET(req, contracts))
Logout == \E req \in LogoutRequests : Exchange(req, LogoutPOST(req, contracts))
AiAssistStatus == \E req \in AiAssistRequests : Exchange(req, AiAssistGET(req, contracts))

\* the response reaches the client; the server waits for the next request
Deliver ==
    /\ pc = "done"
    /\ pc' = "idle"
    /\ request' = NoRequest
    /\ response' = NoResponse
    /\ UNCHANGED <<contracts, clock, openRouter, workers, browser>>

Next ==
    \/ ListContracts
    \/ CreateContract
    \/ GetContract
    \/ UpdateContract
    \/ DeleteContract
    \/ SignContract
    \/ Me
    \/ Logout
    \/ AiAssistStatus
    \/ Deliver

Spec == Init /\ [][Next]_vars

(***************************************************************************)
(* Properties.                                                             *)
(*                                                                         *)
(* A step that answers a request takes pc from "idle" to "done"; in it     *)
(* request' is the request, response' the answer, contracts the file       *)
(* before and contracts' the file after the exchange.                      *)
(***************************************************************************)
Answers == pc = "idle" /\ pc' = "done"

\* the request names contract c through the given route
Names(req, method, c) == req.method = method /\ req.path = ContractPath(c.id.s[1])
NamesSign(req, c) == req.method = "POST" /\ req.path = SignPath(c.id.s[1])

\* the caller's session carries the vendor id of contract c
ByOwner(req, c) == SessionReadable(req.cookie) /\ req.cookie.id = c.vendorId
\* the caller's session carries an id that is not the vendor id of c
ByStranger(req, c) == SessionReadable(req.cookie) /\ req.cookie.id # c.vendorId

Stored == 1..Len(contracts)

\* every record but the i-th is what it was, and no record came or went
OthersUntouched(i) ==
    /\ Len(contracts') = Len(contracts)
    /\ \A j \in Stored : j # i => contracts'[j] = contracts[j]

\* the i-th record differs at most in the given fields
ChangesOnly(i, fields) ==
    \A f \in StoredFields \ fields : contracts'[i][f] = contracts[i][f]

\* C1: a contract's status only moves forward along draft -> signed ->
\* deleted: a signed or deleted contract never becomes draft again, and a
\* deleted contract never gets another status.
StatusMovesForward ==
    [][\A i \in Stored :
          /\ contracts[i].status \in {Signed, Deleted} => contracts'[i].status # Draft
          /\ contracts[i].status = Deleted => contracts'[i].status = Deleted]_vars

\* C2: a PUT by the owner on a signed contract is answered 400 'Cannot edit
\* signed contracts' and leaves the stored contracts as they were.
SignedContractsNotEdited ==
    [][\A i \in Stored :
          (Answers /\ Names(request', "PUT", contracts[i]) /\ ByOwner(request', contracts[i])
             /\ contracts[i].status = Signed)
          => /\ response'.status = 400
             /\ response'.error = "Cannot edit signed contracts"
             /\ contracts' = contracts]_vars

\* C2 witness: the owner sent new values for all six fields of a signed
\* contract and got the refusal
SignedEditRefused ==
    /\ pc = "done"
    /\ request.method = "PUT"
    /\ request.body = ObjectBody(Fields(SecondDetails))
    /\ response.error = "Cannot edit signed contracts"
    /\ \E i \in Stored : Names(request, "PUT", contracts[i]) /\ contracts[i].signature # NoSignature

\* C3: a PUT by the owner on a deleted contract is rejected and leaves the
\* stored record unchanged.
DeletedContractsNotEdited ==
    [][\A i \in Stored :
          (Answers /\ Names(request', "PUT", contracts[i]) /\ ByOwner(request', contracts[i])
             /\ contracts[i].status = Deleted)
          => /\ ~response'.success
             /\ contracts'[i] = contracts[i]]_vars

\* C4: once a contract has a signature, no later request changes or removes
\* the signature's type, data or timestamp.
SignatureImmutable ==
    [][\A i \in Stored :
          contracts[i].signature # NoSignature
          => contracts'[i].signature = contracts[i].signature]_vars

\* C5: a sign request by the owner on a signed contract is answered 400
\* 'Contract is already signed' and leaves signature, status and updatedAt as
\* they were.
SignedContractsNotResigned ==
    [][\A i \in Stored :
          (Answers /\ NamesSign(request', contracts[i]) /\ ByOwner(request', contracts[i])
             /\ contracts[i].status = Signed)
          => /\ response'.status = 400
             /\ response'.error = "Contract is already signed"
             /\ contracts'[i].signature = contracts[i].signature
             /\ contracts'[i].status = contracts[i].status
             /\ contracts'[i].updatedAt = contracts[i].updatedAt]_vars

\* C5 witness: a well-formed signature, different from the stored one, was
\* refused on a signed contract
ResignRefused ==
    /\ pc = "done"
    /\ response.error = "Contract is already signed"
    /\ \E i \in Stored :
          /\ NamesSign(request, contracts[i])
          /\ request.body.fields.type \in SignatureTypes
          /\ Truthy(request.body.fields.data)
          /\ contracts[i].signature.data # request.body.fields.data

\* C6: a successful sign request on a draft contract makes it signed with a
\* signature of the request's type and data and the server's time; nothing
\* but status, signature and updatedAt of that contract changes, and no other
\* contract changes.
SignEffect ==
    [][\A i \in Stored :
          (Answers /\ NamesSign(request', contracts[i]) /\ contracts[i].status = Draft
             /\ response'.success)
          => /\ OthersUntouched(i)
             /\ contracts'[i].status = Signed
             /\ contracts'[i].signature =
                    Signature(request'.body.fields.type, request'.body.fields.data,
                              toISOString(clock))
             /\ ChangesOnly(i, {"status", "signature", "updatedAt"})]_vars

\* C6 witness: one of two stored contracts was just signed by a request that
\* also carried a timestamp of its own
DraftSigned ==
    /\ pc = "done"
    /\ response.success
    /\ Len(contracts) = 2
    /\ request.body.fields.timestamp # Undefined
    /\ \E i \in Stored :
          /\ NamesSign(request, contracts[i])
          /\ contracts[i].status = Signed
          /\ contracts[i].signature.data = request.body.fields.data
          /\ contracts[i].signature.timestamp # request.body.fields.timestamp

\* C7: GET, PUT, DELETE and sign on an existing contract by a session whose
\* id is not the contract's vendorId are answered 403 'Access denied', carry
\* no contract data and leave the stored contracts as they were.
OwnershipEnforced ==
    [][\A i \in Stored :
          (Answers /\ ByStranger(request', contracts[i])
             /\ \/ \E m \in {"GET", "PUT", "DELETE"} : Names(request', m, contracts[i])
                \/ NamesSign(request', contracts[i]))
          => /\ response'.status = 403
             /\ response'.error = "Access denied"
             /\ response'.data = <<>>
             /\ contracts' = contracts]_vars

\* C7 witness: another vendor asked to delete a draft and was denied
StrangerDenied ==
    /\ pc = "done"
    /\ request.method = "DELETE"
    /\ response.status = 403
    /\ \E i \in Stored :
          /\ Names(request, "DELETE", contracts[i])
          /\ ByStranger(request, contracts[i])
          /\ request.cookie.id \in Vendors
          /\ contracts[i].status = Draft

\* C8: a request to an /api/ path other than the login endpoint that carries
\* no session cookie is answered 401 'Not authenticated' and changes no
\* stored contract.
LoginPath == <<"api", "auth", "login">>
AuthenticationRequired ==
    [][(Answers /\ StartsWith(request'.path, <<"api">>) /\ request'.path # LoginPath
          /\ ~request'.cookie.present)
       => /\ response'.status = 401
          /\ response'.error = "Not authenticated"
          /\ contracts' = contracts]_vars

\* C8 witness: a logout without a cookie, which only the middleware stops,
\* while a contract is stored
AnonymousStopped ==
    /\ pc = "done"
    /\ request.path = LogoutPath
    /\ ~request.cookie.present
    /\ response.status = 401
    /\ contracts # <<>>

\* C9: GET /api/contracts returns exactly the stored contracts of the
\* session's vendor that are not deleted, each once.
ListIsVendorsLiveContracts ==
    [][(Answers /\ request'.method = "GET" /\ request'.path = ListPath
          /\ SessionReadable(request'.cookie))
       => /\ response'.success
          /\ {response'.data[j] : j \in 1..Len(response'.data)} =
                {contracts[i] : i \in {k \in Stored :
                    /\ contracts[k].vendorId = request'.cookie.id
                    /\ contracts[k].status # Deleted}}
          /\ \A j, k \in 1..Len(response'.data) :
                response'.data[j] = response'.data[k] => j = k]_vars

\* C9 witness: of two stored contracts the list shows one; the other is the
\* caller's own deleted contract
ListHidesDeleted ==
    /\ pc = "done"
    /\ request.method = "GET"
    /\ request.path = ListPath
    /\ Len(response.data) = 1
    /\ Len(contracts) = 2
    /\ \E i \in Stored :
          contracts[i].vendorId = request.cookie.id /\ contracts[i].status = Deleted

\* C10: a DELETE by the owner on a draft or signed contract marks it deleted
\* and keeps the record: nothing but status and updatedAt of that contract
\* changes, and no other contract changes.
SoftDelete ==
    [][\A i \in Stored :
          (Answers /\ Names(request', "DELETE", contracts[i]) /\ ByOwner(request', contracts[i])
             /\ contracts[i].status \in {Draft, Signed})
          => /\ response'.success
             /\ OthersUntouched(i)
             /\ contracts'[i].status = Deleted
             /\ ChangesOnly(i, {"status", "updatedAt"})]_vars

\* C10 witness: one of two stored contracts was deleted and still carries its
\* signature
SignedDeleted ==
    /\ pc = "done"
    /\ request.method = "DELETE"
    /\ response.success
    /\ Len(contracts) = 2
    /\ \E i \in Stored :
          /\ Names(request, "DELETE", contracts[i])
          /\ contracts[i].status = Deleted
          /\ contracts[i].signature # NoSignature

(***************************************************************************)
(* Contract creation on its own: POST /api/contracts with bodies in which  *)
(* one field at a time is missing or wrong.                                *)
(***************************************************************************)
\* what a client may send for a field instead of its first value
OtherValues(f) ==
    CASE f = "eventDate" ->
            {Undefined, Str(<<>>), Str(<<" ">>), Str(<<"d", "3">>), Str(<<"s", "o", "o", "n">>)}
      [] f = "amount" ->
            {Undefined, Str(<<"0">>), Str(<<"-", "1">>), Str(<<"x">>), Num(0), Num(25)}
      [] OTHER -> {Undefined, Str(<<>>), Str(<<" ">>), Str(<<"b">>), Num(7)}

DraftBodies ==
    {ObjectBody(Fields(FirstDetails)), EmptyBody}
        \cup UNION {{ObjectBody(Fields([FirstDetails EXCEPT ![f] = v])) : v \in OtherValues(f)} :
                        f \in ContractFields}

DraftRequests == {Req("POST", ListPath, c, b) : c \in Sessions, b \in DraftBodies}

CreateDraft == \E req \in DraftRequests : Exchange(req, CreatePOST(req, contracts, clock))

NextCreate ==
    \/ CreateDraft
    \/ Deliver

SpecCreate == Init /\ [][NextCreate]_vars

\* the field is missing from the body or is not a value the form accepts
MissingOrInvalid(f, v) == v = Undefined \/ validateField(f, v) # "valid"

\* C11: a POST /api/contracts in which one of clientName, eventDate,
\* eventVenue, servicePackage, amount or content is missing or invalid is
\* answered 400 'Validation failed' and adds no contract.
CreationValidatesAllFields ==
    [][(Answers /\ request'.method = "POST" /\ request'.path = ListPath
          /\ SessionReadable(request'.cookie) /\ BodyReadable(request'.body)
          /\ \E f \in ContractFields : MissingOrInvalid(f, request'.body.fields[f]))
       => /\ response'.status = 400
          /\ response'.error = "Validation failed"
          /\ contracts' = contracts]_vars

\* C12: a successful POST /api/contracts adds exactly one record: a draft of
\* the session's vendor without signature, with createdAt equal to
\* updatedAt; it is answered 201 with the record's id and leaves the records
\* already stored as they were.
CreationAddsOneDraft ==
    [][(Answers /\ request'.method = "POST" /\ request'.path = ListPath /\ response'.success)
       => /\ response'.status = 201
          /\ Len(contracts') = Len(contracts) + 1
          /\ SubSeq(contracts', 1, Len(contracts)) = contracts
          /\ LET new == contracts'[Len(contracts')]
             IN /\ new.status = Draft
                /\ new.vendorId = request'.cookie.id
                /\ new.signature = NoSignature
                /\ new.createdAt = new.updatedAt
                /\ new.id = response'.id
                /\ \A i \in Stored : contracts[i].id # new.id]_vars

\* C12 witness: a second contract was created next to one that is no longer
\* a draft
SecondDraftCreated ==
    /\ pc = "done"
    /\ request.method = "POST"
    /\ request.path = ListPath
    /\ response.status = 201
    /\ Len(contracts) = 2
    /\ contracts[1].status # Draft
    /\ contracts[2].id = response.id

(***************************************************************************)
(* AuthGuard (auth-guard.tsx) over useAuthStore.                           *)
(*                                                                         *)
(* A render reads the store; the effects of a commit run with the values   *)
(* their render read.  A change of the store renders the mounted guard     *)
(* again before the browser does anything else, so the steps below end     *)
(* with the guard rendered from the store they leave.                      *)
(***************************************************************************)
GuardedPages == {"dashboard", "new", "edit"}
redirectTo == "/login"

\* what AuthGuard returns for the store values it reads
GuardView(store) ==
    IF store.isLoading THEN "spinner"
    ELSE IF ~store.isAuthenticated THEN "null"
    ELSE "children"

\* the second effect: router.push(redirectTo) for the values of the render
GuardRedirect(store, pushed) ==
    IF ~store.isLoading /\ ~store.isAuthenticated THEN Append(pushed, redirectTo) ELSE pushed

\* the guard after a render of `store` and the effects of that render
Rendered(store) ==
    IF guard.page = "" THEN guard
    ELSE [guard EXCEPT !.view = GuardView(store), !.pushed = GuardRedirect(store, @)]

\* the store after login() succeeded for the user of `cookie`
LoggedIn(cookie) == [user |-> [id |-> cookie.id], isAuthenticated |-> TRUE, isLoading |-> FALSE]

\* a page wrapped in AuthGuard mounts: first render, then both effects of
\* the commit (initializeAuth starts, the redirect effect sees the first
\* render), then the render the store change asks for
GuardMounts ==
    \E wrapped \in GuardedPages :
        LET first == authStore
            started == [authStore EXCEPT !.isLoading = TRUE]
        IN /\ guard.page = ""
           /\ authStore' = started
           /\ pending' = pending \cup {[call |-> "initializeAuth", cookie |-> jar]}
           /\ guard' = [page |-> wrapped, view |-> GuardView(started),
                        pushed |-> GuardRedirect(first, <<>>)]
           /\ UNCHANGED <<server, jar, contractStore, page, form, workflow>>

\* the store after initializeAuth got `resp` from GET /api/auth/me
Initialized(resp) ==
    IF resp.success /\ resp.data # <<>>
    THEN [user |-> resp.data[1], isAuthenticated |-> TRUE, isLoading |-> FALSE]
    ELSE [user |-> Null, isAuthenticated |-> FALSE, isLoading |-> FALSE]

\* the answer of the server to GET /api/auth/me with `cookie`
MeAnswer(cookie) ==
    LET req == Req("GET", MePath, cookie, EmptyBody)
        gate == Gate(req)
    IN IF gate = "next" THEN MeGET(req, contracts).response ELSE GateResponse(gate)

\* initializeAuth goes on after its fetch: with the answer, or in its catch
\* block when the fetch failed
InitializeAuthSettles ==
    \E call \in pending, reached \in BOOLEAN :
        LET store == IF reached THEN Initialized(MeAnswer(call.cookie))
                     ELSE Initialized(NoResponse)
        IN /\ call.call = "initializeAuth"
           /\ pending' = pending \ {call}
           /\ authStore' = store
           /\ guard' = Rendered(store)
           /\ UNCHANGED <<server, jar, contractStore, page, form, workflow>>

\* logout(): POST /api/auth/logout, and in any case the store is cleared
StoreLogout ==
    \E reached \in BOOLEAN :
        LET req == Req("POST", LogoutPath, jar, EmptyBody)
            answer == IF reached /\ Gate(req) = "next"
                      THEN LogoutPOST(req, contracts).response ELSE NoResponse
        IN /\ authStore.isAuthenticated
           /\ jar' = IF answer.setCookie # <<>> THEN answer.setCookie[1] ELSE jar
           /\ authStore' = initialAuthState
           /\ guard' = Rendered(initialAuthState)
           /\ UNCHANGED <<server, pending, contractStore, page, form, workflow>>

\* the browser leaves the page: to the route that was pushed, or elsewhere
GuardUnmounts ==
    /\ guard.page # ""
    /\ guard' = NoGuard
    /\ UNCHANGED <<server, jar, authStore, pending, contractStore, page, form, workflow>>

\* the session cookie reaches its maxAge
CookieExpires ==
    /\ jar # NoCookie
    /\ jar' = NoCookie
    /\ UNCHANGED <<server, authStore, guard, pending, contractStore, page, form, workflow>>

\* a browser that was never logged in, holds a damaged cookie, reloaded
\* the page with its session, or just logged in
InitGuard ==
    /\ contracts = <<>>
    /\ clock = 0
    /\ request = NoRequest
    /\ response = NoResponse
    /\ pc = "idle"
    /\ openRouter = [apiKey |-> FALSE, answer |-> NoAnswer]
    /\ workers = [w \in Workers |-> IdleWorker]
    /\ guard = NoGuard
    /\ pending = {}
    /\ contractStore = initialState
    /\ page = NoPage
    /\ form = NoForm
    /\ workflow = NoWorkflow
    /\ \/ /\ jar \in {NoCookie} \cup BrokenCookies \cup Sessions
          /\ authStore = initialAuthState
       \/ /\ jar \in Sessions
          /\ authStore = LoggedIn(jar)

NextGuard ==
    \/ GuardMounts
    \/ InitializeAuthSettles
    \/ StoreLogout
    \/ GuardUnmounts
    \/ CookieExpires

SpecGuard == InitGuard /\ [][NextGuard]_vars

\* C13: AuthGuard pushes the login route only in a step after which no
\* initializeAuth is waiting and the store says not loading and not
\* authenticated, it shows its children only while the store says
\* authenticated, and it never pushes the login route while the browser
\* holds a valid session
AuthGuardRedirectsAfterCheck ==
    [][/\ guard'.view = "children" => authStore'.isAuthenticated
       /\ (guard'.page # "" /\ guard'.pushed # <<>> /\ guard'.pushed # guard.pushed)
            => /\ ~authStore'.isLoading
               /\ ~authStore'.isAuthenticated
               /\ \A call \in pending' : call.call # "initializeAuth"
               /\ ~SessionReadable(jar)]_vars

(***************************************************************************)
(* Signature validation: validateSignature of the client and the checks    *)
(* of the sign endpoint.                                                   *)
(***************************************************************************)
ImagePrefix == <<"data:", "image/">>

\* String.prototype.startsWith
StartsWithChars(chars, prefix) ==
    Len(chars) >= Len(prefix) /\ SubSeq(chars, 1, Len(prefix)) = prefix

\* validateSignature: "throws" when data has no startsWith or trim method
validateSignature(signature) ==
    IF ~Truthy(signature.type) \/ ~Truthy(signature.data) \/ ~Truthy(signature.timestamp)
    THEN "invalid"
    ELSE IF signature.type \notin SignatureTypes THEN "invalid"
    ELSE IF ~IsString(signature.data) THEN "throws"
    ELSE IF signature.type = Str(<<"drawn">>)
    THEN IF StartsWithChars(signature.data.s, ImagePrefix) THEN "valid" ELSE "invalid"
    ELSE IF Len(Trim(signature.data.s)) > 0 THEN "valid" ELSE "invalid"

SignTypeValues == SignatureTypes \cup {Undefined, Str(<<>>), Str(<<"stamp">>), Num(1)}
SignDataValues ==
    {Undefined, Str(<<>>), Str(<<" ">>), Str(<<"K">>), Str(<<"data:", "image/", "png">>),
     Str(<<"data:", "text/">>), Num(7), EmptyArray}
SignatureBodies ==
    {ObjectBody(Fields([type |-> t, data |-> d])) : t \in SignTypeValues, d \in SignDataValues}
SignatureRequests ==
    {Req("POST", SignPath(id), c, b) : id \in {"c1"}, c \in Sessions, b \in SignatureBodies}
FirstRequests == {Req("POST", ListPath, c, ObjectBody(Fields(FirstDetails))) : c \in Sessions}

CreateFirst == \E req \in FirstRequests : Exchange(req, CreatePOST(req, contracts, clock))
SignDraft == \E req \in SignatureRequests : Exchange(req, SignPOST(req, contracts, clock))

NextSign == \/ CreateFirst \/ SignDraft \/ Deliver
SpecSign == Init /\ [][NextSign]_vars

\* C14: the sign endpoint stores a signature only if its type is 'drawn' or
\* 'typed' and its data passes validateSignature; a sign request of the
\* owner for a draft with any other signature is answered 400 and leaves the
\* stored contracts as they were.
SignatureValidatedOnServer ==
    [][\A i \in Stored :
          (Answers /\ NamesSign(request', contracts[i]) /\ ByOwner(request', contracts[i])
             /\ contracts[i].status = Draft /\ BodyReadable(request'.body))
          => LET sent == Signature(request'.body.fields.type, request'.body.fields.data,
                                   toISOString(clock))
             IN IF sent.type \in SignatureTypes /\ validateSignature(sent) = "valid"
                THEN TRUE
                ELSE /\ response'.status = 400
                     /\ contracts' = contracts]_vars

(***************************************************************************)
(* POST /api/ai-assist: validateAIRequest, generateWithOpenRouter and the  *)
(* templates of generateFallbackContent.                                   *)
(***************************************************************************)
\* Number(v) on whole numbers, as the comparison amount <= 0 converts
ToNumber(v) ==
    IF v.t = "number" \/ v.t = "NaN" THEN v
    ELSE IF v.t = "null" THEN Num(0)
    ELSE IF v.t # "string" THEN NaN
    ELSE LET body == Trim(v.s)
             neg == body # <<>> /\ Head(body) = "-"
             rest == IF neg THEN Tail(body) ELSE body
         IN IF body = <<>> THEN Num(0)
            ELSE IF rest = <<>> \/ \E i \in 1..Len(rest) : ~IsDigit(rest[i]) THEN NaN
            ELSE Num((IF neg THEN -1 ELSE 1) * DigitPrefix(rest, 0))

\* !request.field?.trim(): "throws" for a value that has no trim method
BlankOrMissing(v) ==
    IF v = Undefined \/ v = Null THEN "invalid"
    ELSE IF ~IsString(v) THEN "throws"
    ELSE IF Trim(v.s) = <<>> THEN "invalid" ELSE "valid"

TrimmedFields == {"clientName", "eventVenue", "servicePackage", "vendorName"}
AiFields == TrimmedFields \cup {"vendorType", "eventDate", "amount"}

\* the error message validateAIRequest has for each field
AiError(f) ==
    CASE f = "vendorType" -> "Vendor type is required"
      [] f = "clientName" -> "Client name is required"
      [] f = "eventDate" -> "Event date is required"
      [] f = "eventVenue" -> "Event venue is required"
      [] f = "servicePackage" -> "Service package is required"
      [] f = "amount" -> "Valid amount is required"
      [] f = "vendorName" -> "Vendor name is required"

validateAIField(f, v) ==
    IF f \in TrimmedFields THEN BlankOrMissing(v)
    ELSE IF f = "amount"
    THEN IF ~Truthy(v) THEN "invalid"
         ELSE IF ToNumber(v).t = "number" /\ ToNumber(v).n <= 0 THEN "invalid" ELSE "valid"
    ELSE IF Truthy(v) THEN "valid" ELSE "invalid"

\* validateAIRequest: whether a test threw, and the messages of the errors
validateAIRequest(data) ==
    [throws |-> \E f \in TrimmedFields : validateAIField(f, data[f]) = "throws",
     errors |-> {AiError(f) : f \in {g \in AiFields : validateAIField(g, data[g]) = "invalid"}}]

\* generateFallbackContent: the template of the vendor type, filled in
generateFallbackContent(data) ==
    LET template == CASE data.vendorType = Str(<<"photographer">>) -> "Wedding Photography Contract"
                      [] data.vendorType = Str(<<"caterer">>) -> "Wedding Catering Contract"
                      [] data.vendorType = Str(<<"florist">>) -> "Wedding Floral Contract"
                      [] OTHER -> "Service Contract"
    IN Str(<<template>> \o data.vendorName.s \o data.clientName.s)

\* what the fetch of generateWithOpenRouter can bring
OpenRouterAnswers ==
    {[kind |-> k, content |-> Undefined] : k \in {"unreachable", "not ok", "no message"}}
    \cup {[kind |-> "message", content |-> c] : c \in {Str(<<"generated">>), Str(<<>>), Null}}

\* generateWithOpenRouter returned a content; otherwise it threw
Generated(env) == env.apiKey /\ env.answer.kind = "message"

AiResponse(content, isFallback) ==
    SuccessData(<<[content |-> content, isFallback |-> isFallback]>>)

\* POST /api/ai-assist with the answer OpenRouter gives when it is asked
AiAssistPOST(req, list, env) ==
    IF ~BodyReadable(req.body) THEN Out(Failure(500, "Failed to generate contract content"), list)
    ELSE LET validation == validateAIRequest(req.body.fields)
         IN IF validation.throws
            THEN Out(Failure(500, "Failed to generate contract content"), list)
            ELSE IF validation.errors # {}
            THEN Out(Resp(400, FALSE, "Validation failed: ", <<>>, Undefined, validation.errors), list)
            ELSE IF Generated(env) THEN Out(AiResponse(env.answer.content, FALSE), list)
            ELSE Out(AiResponse(generateFallbackContent(req.body.fields), TRUE), list)

AiDetails ==
    [vendorType |-> Str(<<"photographer">>), clientName |-> Str(<<"a">>),
     eventDate |-> Str(<<"d", "8">>), eventVenue |-> Str(<<"a">>),
     servicePackage |-> Str(<<"a">>), amount |-> Num(25), vendorName |-> Str(<<"n">>)]

AiValues(f) ==
    CASE f = "amount" -> {Undefined, Num(0), Num(-1), Str(<<"2", "5">>), Str(<<"-", "1">>), Str(<<"x">>)}
      [] f = "vendorType" -> {Undefined, Str(<<>>), Str(<<"florist">>), Str(<<"dj">>)}
      [] f = "eventDate" -> {Undefined, Str(<<>>), Str(<<"s", "o", "o", "n">>)}
      [] OTHER -> {Undefined, Null, Str(<<>>), Str(<<" ">>), Num(7)}

AiBodies ==
    {ObjectBody(Fields(AiDetails)), EmptyBody, NullBody, MalformedBody}
    \cup UNION {{ObjectBody(Fields([AiDetails EXCEPT ![f] = v])) : v \in AiValues(f)} : f \in AiFields}

AiRequests ==
    UNION {{Req("POST", AiAssistPath, c, b) : b \in BodiesFor(c, AiBodies, ObjectBody(Fields(AiDetails)))} :
           c \in Cookies}

\* one exchange with the AI endpoint; OpenRouter is asked when the request
\* got as far as generateWithOpenRouter and a key is configured
AiAssist ==
    \E req \in AiRequests, answer \in OpenRouterAnswers :
        LET asked == /\ openRouter.apiKey
                     /\ Gate(req) = "next"
                     /\ BodyReadable(req.body)
                     /\ ~validateAIRequest(req.body.fields).throws
                     /\ validateAIRequest(req.body.fields).errors = {}
            env == [openRouter EXCEPT !.answer = IF asked THEN answer ELSE NoAnswer]
        IN /\ Answer(req, AiAssistPOST(req, contracts, env))
           /\ openRouter' = env
           /\ UNCHANGED <<workers, browser>>

InitAi ==
    /\ contracts = <<>>
    /\ clock = 0
    /\ request = NoRequest
    /\ response = NoResponse
    /\ pc = "idle"
    /\ openRouter \in {[apiKey |-> k, answer |-> NoAnswer] : k \in BOOLEAN}
    /\ workers = [w \in Workers |-> IdleWorker]
    /\ jar = NoCookie
    /\ authStore = initialAuthState
    /\ guard = NoGuard
    /\ pending = {}
    /\ contractStore = initialState
    /\ page = NoPage
    /\ form = NoForm
    /\ workflow = NoWorkflow

NextAi == \/ AiAssist \/ AiAssistStatus \/ Deliver
SpecAi == InitAi /\ [][NextAi]_vars

\* C15: a POST /api/ai-assist that passed the middleware with a body that
\* passes validateAIRequest is answered success with non-empty content,
\* isFallback false when the OpenRouter call succeeded, the template content
\* and isFallback true when it failed or no key is configured; a body with
\* validation errors is answered 400 with those errors.
AiFallsBackToTemplates ==
    [][(Answers /\ request'.method = "POST" /\ request'.path = AiAssistPath
          /\ Gate(request') = "next" /\ BodyReadable(request'.body)
          /\ ~validateAIRequest(request'.body.fields).throws)
       => IF validateAIRequest(request'.body.fields).errors # {}
          THEN /\ response'.status = 400
               /\ ~response'.success
               /\ response'.errors = validateAIRequest(request'.body.fields).errors
          ELSE /\ response'.success
               /\ response'.data # <<>>
               /\ Truthy(response'.data[1].content)
               /\ IF Generated(openRouter')
                  THEN ~response'.data[1].isFallback
                  ELSE /\ response'.data[1].isFallback
                       /\ response'.data[1].content =
                              generateFallbackContent(request'.body.fields)]_vars

(***************************************************************************)
(* The contract store and the edit page (contracts/[id]/edit/page.tsx)     *)
(* with its ContractEditForm, in the one tab of a logged-in vendor.        *)
(*                                                                         *)
(* A fetch of the browser may fail before the request reached the server   *)
(* or after the server handled it; the store's catch block then runs.      *)
(***************************************************************************)
Outcomes == {"answered", "request lost", "response lost"}

\* what a fetch does to the file and what its caller gets; a caller whose
\* fetch threw is left with no success
Fetch(req, handled, outcome) ==
    LET gate == Gate(req)
        out == IF gate = "next" THEN handled ELSE Out(GateResponse(gate), contracts)
    IN [contracts |-> IF outcome = "request lost" THEN contracts ELSE out.contracts,
        result |-> IF outcome = "answered" THEN out.response ELSE NoResponse]

\* the file after a fetch of the browser; the server is between two requests
Stores(list) ==
    /\ pc = "idle"
    /\ list # contracts => clock < MaxClock
    /\ Len(list) <= MaxContracts
    /\ contracts' = list
    /\ clock' = IF list # contracts THEN clock + 1 ELSE clock
    /\ UNCHANGED <<request, response, pc, openRouter, workers>>

\* { ...contract, ...updates }
Merged(c, updates) == [f \in DOMAIN c |-> IF f \in DOMAIN updates THEN updates[f] ELSE c[f]]

MapContracts(list, contractId, updates) ==
    [i \in 1..Len(list) |-> IF list[i].id = contractId THEN Merged(list[i], updates) ELSE list[i]]

\* the store after fetchContracts got its result
fetchContractsDone(store, result) ==
    IF result.success
    THEN [store EXCEPT !.contracts = result.data, !.isLoading = FALSE]
    ELSE [store EXCEPT !.isLoading = FALSE]

\* the store after updateContract got its result
updateContractDone(store, contractId, updates, result) ==
    IF result.success
    THEN [store EXCEPT !.contracts = MapContracts(@, contractId, updates),
                       !.isContractLoading = FALSE]
    ELSE [store EXCEPT !.isContractLoading = FALSE]

\* the store after deleteContract got its result
deleteContractDone(store, contractId, result) ==
    IF result.success
    THEN [store EXCEPT !.contracts = SelectSeq(@, LAMBDA c : c.id # contractId),
                       !.isLoading = FALSE]
    ELSE [store EXCEPT !.isLoading = FALSE]

\* the store after signContract got its result
signContractDone(store, contractId, signature, result) ==
    updateContractDone(store, contractId, [signature |-> signature, status |-> Signed], result)

\* contracts.find(c => c.id === contractId) || null
Find(list, id) ==
    LET i == findIndex(list, Str(<<id>>)) IN IF i = 0 THEN <<>> ELSE <<list[i]>>

ViewRoute(id) == <<"contracts", id>>

\* the effects of the edit page that follow a change of the store's
\* contracts: setContract when there are contracts, router.replace when the
\* contract is signed
PageEffects(p, store) ==
    LET found == IF Len(store.contracts) > 0 THEN Find(store.contracts, p.contractId)
                 ELSE p.contract
    IN [p EXCEPT !.contract = found,
                 !.replaced = IF found # <<>> /\ found[1].status = Signed
                              THEN <<ViewRoute(p.contractId)>> ELSE @]

\* what EditContractContent returns
EditView(p, store) ==
    IF p.contractId = "" THEN ""
    ELSE IF p.isInitialLoading \/ store.isLoading THEN "loading"
    ELSE IF p.contract = <<>> THEN "not found"
    ELSE IF p.contract[1].status = Signed THEN "redirecting"
    ELSE IF p.contract[1].status = Deleted THEN "deleted"
    ELSE "form"

\* Number.prototype.toString for the amounts below 100
NumberToString(v) ==
    IF v.n < 10 THEN Str(<<Digits[v.n + 1]>>)
    ELSE Str(<<Digits[(v.n \div 10) + 1], Digits[(v.n % 10) + 1]>>)

\* the state ContractEditForm mounts with
FormFor(c) ==
    [shown |-> TRUE,
     formData |-> [f \in ContractFields |-> IF f = "amount" THEN NumberToString(c.amount) ELSE c[f]],
     errors |-> {}, isSubmitting |-> FALSE, showSigningWorkflow |-> FALSE,
     updatedContract |-> <<c>>]

\* the form lives as long as the page returns it
FormAfter(f, p, store) ==
    IF EditView(p, store) # "form" THEN NoForm
    ELSE IF f.shown THEN f ELSE FormFor(p.contract[1])

\* validateForm: the fields with an error
validateForm(formData) ==
    {f \in ContractFields :
        CASE f = "eventDate" ->
                 \/ ~Truthy(formData[f])
                 \/ NewDate(formData[f].s).t = "number" /\ NewDate(formData[f].s).n < Today
          [] f = "amount" ->
                 \/ Trim(formData[f].s) = <<>>
                 \/ ParseFloat(formData[f]).t = "NaN"
                 \/ ParseFloat(formData[f]).n <= 0
          [] f = "content" -> Trim(formData[f].s) = <<>> \/ formData[f].s = <<"<p></p>">>
          [] OTHER -> Trim(formData[f].s) = <<>>}

\* the contractData handleSign sends
ContractData(formData) ==
    [f \in ContractFields |->
        CASE f \in {"clientName", "eventVenue", "servicePackage"} -> Str(Trim(formData[f].s))
          [] f = "amount" -> ParseFloat(formData[f])
          [] OTHER -> formData[f]]

\* the state ContractSigningWorkflow mounts with; a timer of an earlier
\* workflow goes on running
Mounted(w) == [NoWorkflow EXCEPT !.mounted = TRUE, !.timer = w.timer]

\* the workflow is taken off the page: its state is gone
Unmounted(w) == [NoWorkflow EXCEPT !.timer = w.timer]

\* the workflow that is launched whatever updateContract returned
LaunchWorkflowAnyway(success) == TRUE

\* handleSign launches the signing workflow when updateContract returned true
LaunchWorkflow(success) == success

\* the ids the tab asks for: those of the stored contracts and one more
EditTargets == {ContractIds[i] : i \in 1..(MaxContracts + 1)}

\* what the vendor types into the form: new details, a blank client name,
\* a date that is no date
FormInputs ==
    LET details == [f \in ContractFields |-> SecondDetails[f]]
    IN {details, [details EXCEPT !.clientName = Str(<<" ">>)],
        [details EXCEPT !.eventDate = Str(<<"s", "o", "o", "n">>)]}

\* the signature the signing workflow hands to handleSignatureConfirm
WorkflowSignature == [type |-> Str(<<"typed">>), data |-> Str(<<"K">>), timestamp |-> Str(<<"T", "9">>)]

TabUnchanged == UNCHANGED <<jar, authStore, guard, workflow>>

\* the dashboard loads: fetchContracts
DashboardLoads ==
    \E outcome \in Outcomes :
        LET req == Req("GET", ListPath, jar, EmptyBody)
            got == Fetch(req, ListGET(req, contracts), outcome)
        IN /\ page.contractId = ""
           /\ Stores(got.contracts)
           /\ contractStore' = fetchContractsDone(contractStore, got.result)
           /\ UNCHANGED <<pending, page, form, workflow>>
           /\ TabUnchanged

\* the new contract page: createContract, which fetches the contracts again
\* after a success
NewContractSaved ==
    \E outcome \in Outcomes :
        LET req == Req("POST", ListPath, jar, ObjectBody(Fields(FirstDetails)))
            got == Fetch(req, CreatePOST(req, contracts, clock), outcome)
            again == Req("GET", ListPath, jar, EmptyBody)
        IN /\ page.contractId = ""
           /\ Stores(got.contracts)
           /\ contractStore' =
                 IF got.result.success
                 THEN fetchContractsDone(contractStore, ListGET(again, got.contracts).response)
                 ELSE [contractStore EXCEPT !.isLoading = FALSE]
           /\ UNCHANGED <<pending, page, form, workflow>>
           /\ TabUnchanged

\* the dashboard's delete dialog: deleteContract
DashboardDeletes ==
    \E id \in EditTargets, outcome \in Outcomes :
        LET req == Req("DELETE", ContractPath(id), jar, EmptyBody)
            got == Fetch(req, ContractDELETE(req, contracts, clock), outcome)
        IN /\ page.contractId = ""
           /\ Find(contractStore.contracts, id) # <<>>
           /\ Stores(got.contracts)
           /\ contractStore' = deleteContractDone(contractStore, Str(<<id>>), got.result)
           /\ UNCHANGED <<pending, page, form, workflow>>
           /\ TabUnchanged

\* the edit page mounts for the id of its route: the first render, the
\* effects of its commit (fetchContracts starts, the store's contracts are
\* searched), and the renders they ask for
EditPageMounts ==
    \E id \in EditTargets :
        /\ page.contractId = ""
        /\ pending = {}
        /\ contractStore' = [contractStore EXCEPT !.isLoading = TRUE]
        /\ page' = PageEffects([NoPage EXCEPT !.contractId = id, !.isInitialLoading = TRUE],
                               contractStore)
        /\ pending' = {[call |-> "fetchContracts"]}
        /\ form' = NoForm
        /\ UNCHANGED server
        /\ TabUnchanged

\* loadContract goes on after fetchContracts: the store takes the result,
\* the page's effects follow a new contracts array, isInitialLoading ends
LoadContractSettles ==
    \E outcome \in Outcomes :
        LET req == Req("GET", ListPath, jar, EmptyBody)
            got == Fetch(req, ListGET(req, contracts), outcome)
            store == fetchContractsDone(contractStore, got.result)
            p == [(IF got.result.success THEN PageEffects(page, store) ELSE page)
                    EXCEPT !.isInitialLoading = FALSE]
        IN /\ [call |-> "fetchContracts"] \in pending
           /\ Stores(got.contracts)
           /\ contractStore' = store
           /\ page' = p
           /\ form' = FormAfter(form, p, store)
           /\ pending' = pending \ {[call |-> "fetchContracts"]}
           /\ TabUnchanged

\* handleInputChange for the fields that differ
FormChanges ==
    \E data \in FormInputs :
        /\ form.shown
        /\ ~form.showSigningWorkflow
        /\ form' = [form EXCEPT !.formData = data,
                                !.errors = {f \in @ : data[f] = form.formData[f]}]
        /\ UNCHANGED <<server, pending, contractStore, page>>
        /\ TabUnchanged

\* Save & Sign is clicked: handleSign up to its await.  The button is not
\* active while isSubmitting.
HandleSign ==
    LET newErrors == validateForm(form.formData)
    IN /\ form.shown
       /\ ~form.showSigningWorkflow
       /\ ~form.isSubmitting
       /\ IF newErrors # {}
          THEN /\ form' = [form EXCEPT !.errors = newErrors]
               /\ UNCHANGED <<pending, contractStore>>
          ELSE /\ form' = [form EXCEPT !.errors = {}, !.isSubmitting = TRUE]
               /\ contractStore' = [contractStore EXCEPT !.isContractLoading = TRUE]
               /\ pending' = pending \cup {[call |-> "updateContract",
                                            contract |-> page.contract[1],
                                            formData |-> form.formData]}
       /\ UNCHANGED <<server, page>>
       /\ TabUnchanged

\* handleSign goes on after updateContract
HandleSignSettles ==
    \E call \in pending, outcome \in Outcomes :
        /\ call.call = "updateContract"
        /\ LET contractData == JsonRecord(ContractData(call.formData))
               req == Req("PUT", ContractPath(call.contract.id.s[1]), jar,
                          ObjectBody(Fields(contractData)))
               got == Fetch(req, ContractPUT(req, contracts, clock), outcome)
               success == got.result.success
               store == updateContractDone(contractStore, call.contract.id, contractData,
                                           got.result)
               p == IF success THEN PageEffects(page, store) ELSE page
           IN /\ Stores(got.contracts)
              /\ contractStore' = store
              /\ page' = p
              /\ form' = [form EXCEPT
                             !.isSubmitting = FALSE,
                             !.showSigningWorkflow = IF LaunchWorkflow(success) THEN TRUE ELSE @,
                             !.updatedContract = IF success
                                                 THEN <<Merged(call.contract, contractData)>>
                                                 ELSE @]
              /\ workflow' = IF LaunchWorkflow(success) /\ ~workflow.mounted
                              THEN Mounted(workflow) ELSE workflow
              /\ pending' = pending \ {call}
              /\ UNCHANGED <<jar, authStore, guard>>

\* handleSignatureConfirm: signContract, then the workflow closes and
\* onSigningComplete pushes the view route, whatever signContract returned
SignatureConfirms ==
    \E outcome \in Outcomes :
        /\ form.showSigningWorkflow
        /\ LET id == page.contract[1].id
               req == Req("POST", SignPath(id.s[1]), jar, ObjectBody(Fields(WorkflowSignature)))
               got == Fetch(req, SignPOST(req, contracts, clock), outcome)
           IN /\ Stores(got.contracts)
              /\ contractStore' = signContractDone(contractStore, id, WorkflowSignature,
                                                   got.result)
              /\ page' = NoPage
              /\ form' = NoForm
              /\ workflow' = Unmounted(workflow)
              /\ UNCHANGED pending
              /\ UNCHANGED <<jar, authStore, guard>>

\* handleSigningCancel
SigningCancels ==
    /\ form.showSigningWorkflow
    /\ form' = [form EXCEPT !.showSigningWorkflow = FALSE]
    /\ workflow' = Unmounted(workflow)
    /\ UNCHANGED <<server, pending, contractStore, page>>
    /\ UNCHANGED <<jar, authStore, guard>>

\* the browser leaves the edit page: by its redirect, a button or the menu
EditPageLeaves ==
    /\ page.contractId # ""
    /\ pending = {}
    /\ page' = NoPage
    /\ form' = NoForm
    /\ workflow' = Unmounted(workflow)
    /\ UNCHANGED <<server, pending, contractStore>>
    /\ UNCHANGED <<jar, authStore, guard>>

\* the tab of a vendor who logged in
InitEdit ==
    /\ contracts = <<>>
    /\ clock = 0
    /\ request = NoRequest
    /\ response = NoResponse
    /\ pc = "idle"
    /\ openRouter = [apiKey |-> FALSE, answer |-> NoAnswer]
    /\ workers = [w \in Workers |-> IdleWorker]
    /\ jar = SessionCookie(Str(<<"v1">>))
    /\ authStore = LoggedIn(jar)
    /\ guard = NoGuard
    /\ pending = {}
    /\ contractStore = initialState
    /\ page = NoPage
    /\ form = NoForm
    /\ workflow = NoWorkflow

NextEdit ==
    \/ DashboardLoads
    \/ NewContractSaved
    \/ DashboardDeletes
    \/ EditPageMounts
    \/ LoadContractSettles
    \/ FormChanges
    \/ HandleSign
    \/ HandleSignSettles
    \/ SignatureConfirms
    \/ SigningCancels
    \/ EditPageLeaves

SpecEdit == InitEdit /\ [][NextEdit]_vars

\* the stored contract the edit page was opened for: its index, 0 for none
Edited(list) == findIndex(list, Str(<<page'.contractId>>))

\* C16: when the edit page has loaded, it shows the form for a draft, sends
\* a signed contract to the contract view, shows 'Cannot Edit Deleted
\* Contract' for a deleted contract and 'Contract Not Found' for an id no
\* contract has; the form is never shown for a contract that is no draft.
EditPageDecidesByStatus ==
    [][/\ (page.isInitialLoading /\ page'.contractId # "" /\ ~page'.isInitialLoading)
          => LET i == Edited(contracts')
                 view == EditView(page', contractStore')
             IN IF i = 0 THEN view = "not found"
                ELSE CASE contracts'[i].status = Draft -> view = "form"
                       [] contracts'[i].status = Signed ->
                              view = "redirecting" /\ page'.replaced = <<ViewRoute(page'.contractId)>>
                       [] contracts'[i].status = Deleted -> view = "deleted"
       /\ EditView(page', contractStore') = "form"
          => Edited(contracts') # 0 /\ contracts'[Edited(contracts')].status = Draft]_vars

\* the six fields of contract c are those of d
SameDetails(c, d) == \A f \in ContractFields : c[f] = d[f]

\* C17: the signing workflow appears only in the step in which an
\* updateContract for validated form data was answered with success, with
\* the details that update stored; from the edit page a contract is signed
\* only through the shown workflow and with the details it shows, so a
\* failed validation or update shows no workflow and signs nothing.
SaveThenSign ==
    [][/\ (~form.showSigningWorkflow /\ form'.showSigningWorkflow)
          => \E call \in pending \ pending' :
                /\ call.call = "updateContract"
                /\ validateForm(call.formData) = {}
                /\ Edited(contracts') # 0
                /\ SameDetails(contracts'[Edited(contracts')], ContractData(call.formData))
                /\ SameDetails(form'.updatedContract[1], contracts'[Edited(contracts')])
       /\ (page.contractId # "" /\ Len(contracts') = Len(contracts))
          => \A i \in Stored :
                (contracts'[i].status = Signed /\ contracts[i].status # Signed)
                => /\ form.showSigningWorkflow
                   /\ contracts[i].id = form.updatedContract[1].id
                   /\ SameDetails(contracts'[i], form.updatedContract[1])]_vars

\* C17 witness: the workflow is shown for the details the vendor typed and
\* Save & Sign stored
WorkflowAfterSave ==
    /\ form.showSigningWorkflow
    /\ form.updatedContract[1].clientName = Str(<<"b">>)
    /\ \E i \in Stored :
          /\ contracts[i].id = form.updatedContract[1].id
          /\ contracts[i].status = Draft
          /\ SameDetails(contracts[i], form.updatedContract[1])

(***************************************************************************)
(* Login, logout and the session cookie in the browser of the auth store.  *)
(***************************************************************************)
\* src/data/users.json: the test accounts of the README
Account(id, email, vendorType) ==
    [id |-> Str(<<id>>), email |-> Str(<<email>>), password |-> Str(<<"password123">>),
     vendorType |-> Str(<<vendorType>>), name |-> Str(<<"name of ", id>>)]
users ==
    <<Account("v1", "photographer@test.com", "photographer"),
      Account("v2", "caterer@test.com", "caterer"),
      Account("v3", "florist@test.com", "florist")>>

\* users.find(u => u.email === email && u.password === password), 0 for none
FindUser(email, password) ==
    IF \E i \in 1..Len(users) : users[i].email = email /\ users[i].password = password
    THEN CHOOSE i \in 1..Len(users) :
            /\ users[i].email = email /\ users[i].password = password
            /\ \A j \in 1..(i - 1) : ~(users[j].email = email /\ users[j].password = password)
    ELSE 0

\* a session user that is the whole account
sessionUserWithPassword(user) == user

\* the session data of login: id, email, vendorType, name
sessionUser(user) == [f \in {"id", "email", "vendorType", "name"} |-> user[f]]

\* the cookie login sets: JSON.stringify(sessionUser)
LoginCookie(content) ==
    [present |-> TRUE, parsable |-> TRUE, object |-> TRUE, id |-> content.id, user |-> content]

\* POST /api/auth/login
LoginPOST(req, list) ==
    IF ~BodyReadable(req.body) THEN Out(Failure(500, "Internal server error"), list)
    ELSE LET email == req.body.fields.email
             password == req.body.fields.password
             i == FindUser(email, password)
         IN IF ~Truthy(email) \/ ~Truthy(password)
            THEN Out(Failure(400, "Email and password are required"), list)
            ELSE IF i = 0 THEN Out(Failure(401, "Invalid email or password"), list)
            ELSE Out([SuccessData(<<sessionUser(users[i])>>)
                        EXCEPT !.setCookie = <<LoginCookie(sessionUser(users[i]))>>], list)

Credentials(email, password) == ObjectBody(Fields([email |-> email, password |-> password]))

LoginBodies ==
    {Credentials(users[i].email, users[i].password) : i \in 1..Len(users)}
    \cup {Credentials(users[1].email, Str(<<"password">>)),
          Credentials(Str(<<"dj@test.com">>), users[1].password),
          Credentials(users[1].email, Undefined),
          Credentials(Str(<<>>), users[1].password),
          Credentials(Num(7), Num(7)),
          EmptyBody, NullBody, MalformedBody}

\* the store after login() got its result
loginDone(store, result) ==
    IF result.success /\ result.data # <<>>
    THEN [user |-> result.data[1], isAuthenticated |-> TRUE, isLoading |-> FALSE]
    ELSE [store EXCEPT !.isLoading = FALSE]

AuthUnchanged == UNCHANGED <<openRouter, workers, jar, guard, pending, contractStore, page, form, workflow>>

\* login(credentials) up to the answer of the server
StoreLogin ==
    \E body \in LoginBodies :
        LET req == Req("POST", LoginPath, jar, body)
        IN /\ Answer(req, LoginPOST(req, contracts))
           /\ authStore' = [authStore EXCEPT !.isLoading = TRUE]
           /\ AuthUnchanged

\* initializeAuth up to the answer of the server
StoreInitializeAuth ==
    LET req == Req("GET", MePath, jar, EmptyBody)
    IN /\ Answer(req, MeGET(req, contracts))
       /\ authStore' = [authStore EXCEPT !.isLoading = TRUE]
       /\ AuthUnchanged

\* logout() up to the answer of the server
StoreLogoutAsks ==
    LET req == Req("POST", LogoutPath, jar, EmptyBody)
    IN /\ Answer(req, LogoutPOST(req, contracts))
       /\ authStore' = [authStore EXCEPT !.isLoading = TRUE]
       /\ AuthUnchanged

\* the answer reaches the browser: it takes the cookie the answer sets, and
\* the store function that asked goes on
BrowserReceives ==
    /\ pc = "done"
    /\ pc' = "idle"
    /\ request' = NoRequest
    /\ response' = NoResponse
    /\ jar' = IF response.setCookie # <<>> THEN response.setCookie[1] ELSE jar
    /\ authStore' = CASE request.path = LoginPath -> loginDone(authStore, response)
                      [] request.path = MePath -> Initialized(response)
                      [] request.path = LogoutPath -> initialAuthState
    /\ UNCHANGED <<contracts, clock, openRouter, workers, guard, pending, contractStore, page, form, workflow>>

NextAuth ==
    \/ StoreLogin
    \/ StoreInitializeAuth
    \/ StoreLogoutAsks
    \/ BrowserReceives
    \/ CookieExpires

SpecAuth == Init /\ [][NextAuth]_vars

\* the answer to a login with the credentials of an account is delivered
\* and the browser holds that account's session
LoginDelivered ==
    /\ pc = "done" /\ pc' = "idle"
    /\ request.path = LoginPath
    /\ response.status = 200
    /\ \E i \in 1..Len(users) :
          /\ request.body.fields.email = users[i].email
          /\ request.body.fields.password = users[i].password
          /\ jar' = LoginCookie([id |-> users[i].id, email |-> users[i].email,
                                 vendorType |-> users[i].vendorType, name |-> users[i].name])

\* the answer to a logout is delivered and the browser holds no session
LogoutDelivered ==
    /\ pc = "done" /\ pc' = "idle"
    /\ request.path = LogoutPath
    /\ response.success
    /\ jar' = NoCookie

\* GET /api/auth/me answers with the session the browser holds, 401 without
MeFollowsSession ==
    (Answers /\ request'.method = "GET" /\ request'.path = MePath)
    => IF jar = NoCookie THEN response'.status = 401 /\ ~response'.success
       ELSE /\ response'.status = 200
            /\ response'.data = <<jar.user>>
            /\ DOMAIN response'.data[1] = {"id", "email", "vendorType", "name"}

\* a login with missing fields is answered 400, one with wrong credentials
\* 401; neither sets a cookie, and the browser's session stays
FailedLoginKeepsSession ==
    /\ (Answers /\ request'.path = LoginPath /\ BodyReadable(request'.body))
       => LET email == request'.body.fields.email
              password == request'.body.fields.password
          IN /\ (~Truthy(email) \/ ~Truthy(password))
                => response'.status = 400 /\ response'.setCookie = <<>>
             /\ (Truthy(email) /\ Truthy(password) /\ FindUser(email, password) = 0)
                => response'.status = 401 /\ response'.setCookie = <<>>
    /\ (pc = "done" /\ pc' = "idle" /\ request.path = LoginPath /\ ~response.success)
       => jar' = jar

\* C18: the browser's session changes only when a successful login or a
\* logout is delivered; GET /api/auth/me returns the user (id, email,
\* vendorType, name) of that session and 401 without one; a login with
\* missing fields (400) or wrong credentials (401) sets no cookie and leaves
\* the session as it was.
SessionFollowsLoginAndLogout ==
    [][/\ jar' # jar => LoginDelivered \/ LogoutDelivered
       /\ MeFollowsSession
       /\ FailedLoginKeepsSession]_vars

\* the session cookie reached its maxAge: the browser dropped it
SessionExpired == jar' = NoCookie /\ UNCHANGED <<server, authStore>>

\* C18, amended: as above, but the session also ends, without a logout,
\* when its cookie reaches the maxAge of 7 days that login sets.
SessionFollowsLoginLogoutAndExpiry ==
    [][/\ jar' # jar => LoginDelivered \/ LogoutDelivered \/ SessionExpired
       /\ MeFollowsSession
       /\ FailedLoginKeepsSession]_vars

\* C18 witness: the browser holds the session of the caterer's login and
\* GET /api/auth/me was answered with the caterer
MeReturnsLastLogin ==
    /\ pc = "done"
    /\ request.path = MePath
    /\ response.status = 200
    /\ jar # NoCookie
    /\ response.data = <<sessionUser(users[2])>>
    /\ jar = LoginCookie(sessionUser(users[2]))
    /\ authStore.isAuthenticated

(***************************************************************************)
(* Requests that overlap.  A route handler runs until it awaits the file:  *)
(* its checks see the file as getContract read it, DataService reads the   *)
(* file again and builds the new content, and writeJsonFile replaces the   *)
(* file with that content.  Other handlers run between these steps.        *)
(***************************************************************************)
Owner == SessionCookie(Str(<<"v1">>))

\* the requests that overlap: two creations, updates of one field of the
\* first and of the second contract, two signatures of the first contract
RaceJobs ==
    {Req("POST", ListPath, Owner, ObjectBody(Fields(FirstDetails))),
     Req("POST", ListPath, Owner, ObjectBody(Fields([FirstDetails EXCEPT !.content = Str(<<"c">>)]))),
     Req("PUT", ContractPath("c1"), Owner, ObjectBody(Fields([clientName |-> Str(<<"b">>)]))),
     Req("PUT", ContractPath("c1"), Owner, ObjectBody(Fields([eventVenue |-> Str(<<"z">>)]))),
     Req("PUT", ContractPath("c2"), Owner, ObjectBody(Fields([clientName |-> Str(<<"b">>)]))),
     Req("POST", SignPath("c1"), Owner,
         ObjectBody(Fields([type |-> Str(<<"typed">>), data |-> Str(<<"K">>)]))),
     Req("POST", SignPath("c1"), Owner,
         ObjectBody(Fields([type |-> Str(<<"typed">>), data |-> Str(<<"L">>)])))}

IsCreate(req) == req.method = "POST" /\ req.path = ListPath
IsUpdate(req) == req.method = "PUT"
IsSign(req) == req.method = "POST" /\ req.path # ListPath

\* the handler's answer when it runs alone on the file content `list`
Alone(req, list) ==
    CASE IsCreate(req) -> CreatePOST(req, list, clock)
      [] IsUpdate(req) -> ContractPUT(req, list, clock)
      [] IsSign(req) -> SignPOST(req, list, clock)

RaceUnchanged == UNCHANGED <<request, response, pc, openRouter, browser>>

\* a request arrives: the middleware, then the handler up to its call of
\* DataService that writes; a request that fails a check is answered
HandlerChecks(w) ==
    \E req \in RaceJobs :
        LET gate == Gate(req)
            answer == IF gate = "next" THEN Alone(req, contracts).response
                      ELSE GateResponse(gate)
        IN /\ workers[w].stage = "idle"
           /\ workers' = [workers EXCEPT ![w] =
                            [stage |-> IF answer.success THEN "checked" ELSE "done",
                             job |-> req, buffer |-> <<>>, response |-> answer]]
           /\ UNCHANGED <<contracts, clock>>
           /\ RaceUnchanged

\* the content DataService builds from the file it read
Built(req, list) ==
    CASE IsCreate(req) -> CreatePOST(req, list, clock).contracts
      [] IsUpdate(req) ->
             updateContract(list, Str(<<req.path[3]>>), UpdateData(req.body.fields),
                            toISOString(clock))
      [] IsSign(req) ->
             saveSignature(list, Str(<<req.path[3]>>),
                           Signature(req.body.fields.type, req.body.fields.data,
                                     toISOString(clock)),
                           toISOString(clock))

\* updateContract finds no contract of the id in the file it read and throws
NotFoundAnymore(req, list) == ~IsCreate(req) /\ findIndex(list, Str(<<req.path[3]>>)) = 0

\* DataService reads the file and builds the content it will write; when
\* it throws, the handler answers 500
DataServiceReads(w) ==
    /\ workers[w].stage = "checked"
    /\ workers' = IF NotFoundAnymore(workers[w].job, contracts)
                  THEN [workers EXCEPT
                          ![w].stage = "done",
                          ![w].response = Failure(500, IF IsSign(workers[w].job)
                                                       THEN "Failed to sign contract"
                                                       ELSE "Failed to update contract")]
                  ELSE [workers EXCEPT ![w].stage = "read",
                                       ![w].buffer = Built(workers[w].job, contracts)]
    /\ UNCHANGED <<contracts, clock>>
    /\ RaceUnchanged

\* writeJsonFile replaces the file; the handler answers success
DataServiceWrites(w) ==
    /\ workers[w].stage = "read"
    /\ clock < MaxClock
    /\ Len(workers[w].buffer) <= MaxContracts
    /\ contracts' = workers[w].buffer
    /\ clock' = clock + 1
    /\ workers' = [workers EXCEPT ![w].stage = "done", ![w].buffer = <<>>]
    /\ RaceUnchanged

\* the answer leaves the server
HandlerReturns(w) ==
    /\ workers[w].stage = "done"
    /\ workers' = [workers EXCEPT ![w] = IdleWorker]
    /\ UNCHANGED <<contracts, clock>>
    /\ RaceUnchanged

NextRace ==
    \E w \in Workers :
        \/ HandlerChecks(w)
        \/ DataServiceReads(w)
        \/ DataServiceWrites(w)
        \/ HandlerReturns(w)

SpecRace == Init /\ [][NextRace]_vars

\* C19: once a contract is signed, no step of overlapping PUT and sign
\* requests changes its clientName, eventDate, eventVenue, servicePackage,
\* amount or content: a PUT that passed its status check before the
\* signing does not write after it.
SignedContentKeptUnderRace ==
    [][\A i \in Stored :
          (contracts[i].status = Signed /\ i <= Len(contracts')
             /\ contracts'[i].id = contracts[i].id /\ contracts'[i].status = Signed)
          => \A f \in ContractFields : contracts'[i][f] = contracts[i][f]]_vars

\* what a create or update request that was answered success changed is
\* in the file
EffectStored(req) ==
    IF IsCreate(req)
    THEN \E i \in Stored : contracts[i].content = req.body.fields.content
    ELSE LET i == findIndex(contracts, Str(<<req.path[3]>>))
             updateData == UpdateData(req.body.fields)
         IN /\ i # 0
            /\ \A f \in DOMAIN updateData : contracts[i][f] = updateData[f]

\* C20: when the createContract and updateContract calls of overlapping
\* requests have returned with success, the file holds every contract they
\* created and every field they updated.
NoAcknowledgedWriteLost ==
    \A w \in Workers :
        (workers[w].stage = "done" /\ workers[w].response.success /\ ~IsSign(workers[w].job))
        => EffectStored(workers[w].job)

\* C21:of the sign requests for one contract that overlap, at most one is
\* answered success, and the signature in the file is the one that request
\* sent.
OneSignatureWins ==
    \A w \in Workers :
        (workers[w].stage = "done" /\ workers[w].response.success /\ IsSign(workers[w].job))
        => /\ \A v \in Workers \ {w} :
                ~(/\ workers[v].stage = "done" /\ workers[v].response.success
                  /\ IsSign(workers[v].job) /\ workers[v].job.path = workers[w].job.path)
           /\ LET i == findIndex(contracts, Str(<<workers[w].job.path[3]>>))
              IN i # 0 => (/\ contracts[i].status = Signed
                           /\ contracts[i].signature.data = workers[w].job.body.fields.data)

(***************************************************************************)
(* The signature of a stored contract, in sequential use.                  *)
(***************************************************************************)
\* a value that is not empty: a string or an array with an element, a
\* number
NonEmpty(v) ==
    CASE v.t \in {"string", "array"} -> v.s # <<>>
      [] v.t = "number" -> TRUE
      [] OTHER -> FALSE

\* C22: a stored contract with status 'signed' has a signature whose type is
\* 'drawn' or 'typed', whose data is not empty and that has a timestamp; a
\* stored contract with status 'draft' has no signature.
SignedHasSignature ==
    \A i \in Stored :
        /\ contracts[i].status = Signed
             => /\ contracts[i].signature # NoSignature
                /\ contracts[i].signature.type \in SignatureTypes
                /\ NonEmpty(contracts[i].signature.data)
                /\ Truthy(contracts[i].signature.timestamp)
        /\ contracts[i].status = Draft => contracts[i].signature = NoSignature
(***************************************************************************)
(* ContractSigningWorkflow inside the edit form: its steps and its two     *)
(* modals.  The workflow is on the page while the form's                   *)
(* showSigningWorkflow is set.                                             *)
(***************************************************************************)
\* the signatures SignatureModal hands to onConfirm
WorkflowSignatures ==
    {WorkflowSignature,
     [type |-> Str(<<"drawn">>), data |-> Str(<<"data:", "image/", "png">>),
      timestamp |-> Str(<<"T", "9">>)]}

handleProceedToSignature(w) == [w EXCEPT !.currentStep = 1, !.isSignatureModalOpen = TRUE]

\* onClose of SignatureModal
closeSignatureModal(w) == [w EXCEPT !.isSignatureModalOpen = FALSE]

\* handleSignatureCreate that leaves the signature modal open
handleSignatureCreateKeepsModal(w, signature) ==
    [w EXCEPT !.pendingSignature = <<signature>>, !.isConfirmModalOpen = TRUE]

handleSignatureCreate(w, signature) ==
    [w EXCEPT !.pendingSignature = <<signature>>, !.isSignatureModalOpen = FALSE,
              !.isConfirmModalOpen = TRUE]

handleCancelSignature(w) ==
    [w EXCEPT !.pendingSignature = <<>>, !.isConfirmModalOpen = FALSE, !.currentStep = 1,
              !.isSignatureModalOpen = TRUE]

\* handleCompleteCancel: the state is reset and onCancel hides the workflow
handleCompleteCancel(w) == Unmounted(w)

\* handleConfirmSignature after its await: the last step, and the timer of
\* onComplete
signatureConfirmed(w) ==
    [w EXCEPT !.currentStep = 2, !.isConfirmModalOpen = FALSE, !.timer = TRUE]

WorkflowOnly == UNCHANGED <<server, jar, authStore, guard, pending, contractStore, page, form>>

\* Proceed to Sign, a button of the first step
ProceedToSignature ==
    /\ workflow.mounted
    /\ workflow.currentStep = 0
    /\ workflow' = handleProceedToSignature(workflow)
    /\ WorkflowOnly

\* the signature modal is closed: its Cancel button or the modal's own close
SignatureModalCloses ==
    /\ workflow.mounted
    /\ workflow.isSignatureModalOpen
    /\ workflow' = closeSignatureModal(workflow)
    /\ WorkflowOnly

\* the signature modal confirms a signature
SignatureCreated ==
    \E signature \in WorkflowSignatures :
        /\ workflow.mounted
        /\ workflow.isSignatureModalOpen
        /\ workflow' = handleSignatureCreate(workflow, signature)
        /\ WorkflowOnly

\* Change Signature, or the confirmation modal is closed
SignatureChanges ==
    /\ workflow.mounted
    /\ workflow.isConfirmModalOpen
    /\ workflow' = handleCancelSignature(workflow)
    /\ WorkflowOnly

\* Cancel, a button of the first step: handleCompleteCancel, whose onCancel
\* is the form's handleSigningCancel
WorkflowCancels ==
    /\ workflow.mounted
    /\ workflow.currentStep = 0
    /\ workflow' = handleCompleteCancel(workflow)
    /\ form' = [form EXCEPT !.showSigningWorkflow = FALSE]
    /\ UNCHANGED <<server, jar, authStore, guard, pending, contractStore, page>>

\* Confirm & Sign Contract: handleConfirmSignature up to its await, that is
\* handleSignatureConfirm and the store's signContract up to the fetch.  The
\* button is not active while the store's isContractLoading is set.
ConfirmSignature ==
    /\ workflow.mounted
    /\ workflow.isConfirmModalOpen
    /\ workflow.pendingSignature # <<>>
    /\ ~contractStore.isContractLoading
    /\ workflow' = [workflow EXCEPT !.error = <<>>]
    /\ contractStore' = [contractStore EXCEPT !.isContractLoading = TRUE]
    /\ pending' = pending \cup {[call |-> "signContract", contractId |-> page.contract[1].id,
                                 signature |-> workflow.pendingSignature[1]]}
    /\ UNCHANGED <<server, jar, authStore, guard, page, form>>

\* signContract got its result and returns; handleSignatureConfirm hides the
\* workflow and calls onSigningComplete, which pushes the view route;
\* handleConfirmSignature goes on for a workflow that is leaving the page
SignContractSettles ==
    \E call \in pending, outcome \in Outcomes :
        /\ call.call = "signContract"
        /\ LET req == Req("POST", SignPath(call.contractId.s[1]), jar,
                          ObjectBody(Fields(call.signature)))
               got == Fetch(req, SignPOST(req, contracts, clock), outcome)
           IN /\ Stores(got.contracts)
              /\ contractStore' = signContractDone(contractStore, call.contractId,
                                                   call.signature, got.result)
              /\ page' = NoPage
              /\ form' = NoForm
              /\ workflow' = Unmounted(signatureConfirmed(workflow))
              /\ pending' = pending \ {call}
              /\ UNCHANGED <<jar, authStore, guard>>

\* the timer of handleConfirmSignature runs out: onComplete pushes the view
\* route once more
CompletionTimerFires ==
    /\ workflow.timer
    /\ pending = {}
    /\ workflow' = [NoWorkflow EXCEPT !.timer = FALSE]
    /\ page' = NoPage
    /\ form' = NoForm
    /\ UNCHANGED <<server, jar, authStore, guard, pending, contractStore>>

\* the vendor signs the contract of the edit page on another device
SignedElsewhere ==
    LET req == Req("POST", SignPath(page.contractId), jar, ObjectBody(Fields(WorkflowSignature)))
        out == SignPOST(req, contracts, clock)
    IN /\ page.contractId # ""
       /\ out.response.success
       /\ Stores(out.contracts)
       /\ UNCHANGED browser

NextWorkflow ==
    \/ DashboardLoads
    \/ NewContractSaved
    \/ DashboardDeletes
    \/ EditPageMounts
    \/ LoadContractSettles
    \/ FormChanges
    \/ HandleSign
    \/ HandleSignSettles
    \/ EditPageLeaves
    \/ ProceedToSignature
    \/ SignatureModalCloses
    \/ SignatureCreated
    \/ SignatureChanges
    \/ WorkflowCancels
    \/ ConfirmSignature
    \/ SignContractSettles
    \/ CompletionTimerFires
    \/ SignedElsewhere

SpecWorkflow == InitEdit /\ [][NextWorkflow]_vars

\* the store holds the contract of the id as signed
StoreSigned(store, contractId) ==
    \E i \in 1..Len(store.contracts) :
        store.contracts[i].id = contractId /\ store.contracts[i].status = Signed

\* C23: the workflow gets to its last step and tells its parent that the
\* signing is complete only in a step in which signContract returned true;
\* when signContract returns false the workflow stays at the signature step
\* and shows the error.
CompletionOnlyWhenSigned ==
    [][\A call \in pending \ pending' :
          call.call = "signContract"
          => IF StoreSigned(contractStore', call.contractId)
             THEN TRUE
             ELSE /\ workflow'.mounted
                  /\ workflow'.currentStep = 1
                  /\ workflow'.error # <<>>
                  /\ page' = page]_vars

\* what the workflow may become by one action the vendor finds on the page:
\* the buttons of the first step, of an open signature modal, of an open
\* confirmation modal (the confirmed signature taken as accepted)
WorkflowSuccessors(w) ==
    IF ~w.mounted \/ w.currentStep = 2 THEN {}
    ELSE (IF w.currentStep = 0
          THEN {handleProceedToSignature(w), handleCompleteCancel(w)} ELSE {})
         \cup (IF w.isSignatureModalOpen
               THEN {closeSignatureModal(w)}
                        \cup {handleSignatureCreate(w, signature) : signature \in WorkflowSignatures}
               ELSE {})
         \cup (IF w.isConfirmModalOpen
               THEN {handleCancelSignature(w), signatureConfirmed(w)} ELSE {})

\* the workflow states within reach of the given ones
RECURSIVE WorkflowReach(_)
WorkflowReach(states) ==
    LET more == states \cup UNION {WorkflowSuccessors(w) : w \in states}
    IN IF more = states THEN states ELSE WorkflowReach(more)

\* C24: from every state of a workflow that is on the page and not at its
\* last step, actions of the vendor lead to the last step or out of the
\* workflow through onCancel.
WorkflowNeverStuck ==
    (workflow.mounted /\ workflow.currentStep # 2)
    => \E w \in WorkflowReach({workflow}) : ~w.mounted \/ w.currentStep = 2

\* C29: at most one of the signature modal and the confirmation modal is
\* open, the signature modal is open only at step 1, and the confirmation
\* modal is open only while a pending signature is held.
OneModalAtATime ==
    /\ ~(workflow.isSignatureModalOpen /\ workflow.isConfirmModalOpen)
    /\ workflow.isSignatureModalOpen => workflow.currentStep = 1
    /\ workflow.isConfirmModalOpen => workflow.pendingSignature # <<>>

\* C29 witness: the confirmation modal shows the drawn signature while the
\* sign request of an earlier confirmation is on its way
ConfirmationOpen ==
    /\ workflow.mounted
    /\ workflow.isConfirmModalOpen
    /\ workflow.pendingSignature # <<>>
    /\ workflow.pendingSignature[1].type = Str(<<"drawn">>)
    /\ \E call \in pending : call.call = "signContract"

(***************************************************************************)
(* PUT /api/contracts/[id] with bodies that hold some of the six fields    *)
(* and keys the handler does not read.                                     *)
(***************************************************************************)
\* keys of a stored contract that a body may carry along
ForeignKeys ==
    [id |-> Str(<<"c2">>), vendorId |-> Str(<<"v2">>), status |-> Signed,
     signature |-> Str(<<"X">>), createdAt |-> Str(<<"T", "9">>), updatedAt |-> Str(<<"T", "9">>)]

\* a value the validator of the field refuses
Refused(f) ==
    CASE f = "eventDate" -> Str(<<"d", "3">>)
      [] f = "amount" -> Str(<<"-", "1">>)
      [] OTHER -> Str(<<" ">>)

\* the six fields a body holds: one field, accepted or refused; two fields;
\* all of them; none
PartialDetails ==
    {[f \in {g} |-> SecondDetails[f]] : g \in ContractFields}
        \cup {[f \in {g} |-> Refused(f)] : g \in ContractFields}
        \cup {[clientName |-> Str(<<"b">>), amount |-> Str(<<"-", "1">>)],
              [eventVenue |-> Str(<<"b">>), content |-> Str(<<"b">>)],
              [f \in ContractFields |-> SecondDetails[f]],
              [f \in {} |-> Undefined]}

\* { ...details, ...foreign }
WithKeys(details, foreign) ==
    [k \in DOMAIN details \cup DOMAIN foreign |->
        IF k \in DOMAIN foreign THEN foreign[k] ELSE details[k]]

PartialBodies ==
    {ObjectBody(Fields(d)) : d \in PartialDetails}
        \cup {ObjectBody(Fields(WithKeys(d, ForeignKeys))) : d \in PartialDetails}

PartialRequests ==
    {Req("PUT", ContractPath(id), c, b) : id \in {"c1"}, c \in Sessions, b \in PartialBodies}

UpdateDraft == \E req \in PartialRequests : Exchange(req, ContractPUT(req, contracts, clock))

NextUpdate == \/ CreateFirst \/ UpdateDraft \/ Deliver
SpecUpdate == Init /\ [][NextUpdate]_vars

\* the fields of the six that the body of the request holds
Provided(req) == {f \in ContractFields : req.body.fields[f] # Undefined}

\* C25: a PUT of the owner on a draft succeeds exactly when every field of
\* the six that its body holds is valid; it then stores those fields and a
\* new updatedAt and changes nothing else of the file, whatever other keys
\* the body holds.
PutChangesProvidedFieldsOnly ==
    [][\A i \in Stored :
          (Answers /\ Names(request', "PUT", contracts[i]) /\ ByOwner(request', contracts[i])
             /\ contracts[i].status = Draft /\ BodyReadable(request'.body))
          => LET body == request'.body.fields
                 valid == \A f \in Provided(request') : validateField(f, body[f]) = "valid"
             IN /\ response'.success = valid
                /\ ~valid => contracts' = contracts /\ response'.errors \subseteq Provided(request')
                /\ valid => /\ OthersUntouched(i)
                            /\ ChangesOnly(i, Provided(request') \cup {"updatedAt"})
                            /\ \A f \in Provided(request') :
                                  contracts'[i][f] = IF f = "amount" THEN ParseFloat(body[f])
                                                     ELSE body[f]
                            /\ contracts'[i].updatedAt = toISOString(clock)]_vars

\* C25 witness: a body with one field and foreign keys was stored: the venue
\* is new, the contract is still the owner's draft without a signature
PartialUpdateStored ==
    /\ pc = "done"
    /\ request.method = "PUT"
    /\ response.success
    /\ Provided(request) = {"eventVenue"}
    /\ request.body.fields.status = Signed
    /\ \E i \in Stored :
          /\ Names(request, "PUT", contracts[i])
          /\ contracts[i].eventVenue = Str(<<"b">>)
          /\ contracts[i].clientName = Str(<<"a">>)
          /\ contracts[i].status = Draft
          /\ contracts[i].signature = NoSignature
          /\ contracts[i].vendorId = request.cookie.id

\* C26: in sequential use no step of the API takes a record out of the file
\* or changes the id, the vendorId or the createdAt of a stored contract:
\* the ids of the file only grow in number.
RecordsAreKept ==
    [][/\ Len(contracts') >= Len(contracts)
       /\ \A i \in Stored :
             /\ contracts'[i].id = contracts[i].id
             /\ contracts'[i].vendorId = contracts[i].vendorId
             /\ contracts'[i].createdAt = contracts[i].createdAt]_vars

\* C26 witness: the second of two contracts was deleted after the first was
\* changed; both records are in the file, each with the createdAt of its
\* creation
DeletedRecordKept ==
    /\ pc = "done"
    /\ request.method = "DELETE"
    /\ response.success
    /\ Len(contracts) = 2
    /\ contracts[1].id = generateId(1) /\ contracts[2].id = generateId(2)
    /\ contracts[1].createdAt = toISOString(0) /\ contracts[1].updatedAt = toISOString(2)
    /\ contracts[2].createdAt = toISOString(1) /\ contracts[2].status = Deleted

(***************************************************************************)
(* Page requests and API requests through config.matcher and middleware.   *)
(***************************************************************************)
\* the pages of the app: the root, the login page, the dashboard, the pages
\* of a contract, and the page of a contract whose id ends in .png
PagePaths ==
    {<<>>, <<"login">>, <<"dashboard">>, <<"contracts", "new">>, <<"contracts", "c1">>,
     <<"contracts", "c1", "edit">>, <<"contracts", "logo.png">>}

\* a page request that is let through is answered with the page
PageGET(req, list) == Out(Success(200), list)

PageRequests == {Req("GET", path, c, EmptyBody) : path \in PagePaths, c \in Cookies}
LoginRequests ==
    {Req("POST", LoginPath, c, b) :
        c \in Cookies, b \in {Credentials(users[1].email, users[1].password), EmptyBody}}

PageRequested == \E req \in PageRequests : Exchange(req, PageGET(req, contracts))
LoginRequested == \E req \in LoginRequests : Exchange(req, LoginPOST(req, contracts))

NextPages ==
    \/ PageRequested
    \/ LoginRequested
    \/ CreateFirst
    \/ GetContract
    \/ Me
    \/ Deliver

SpecPages == Init /\ [][NextPages]_vars

\* the answers the middleware gives itself
Redirected(resp) == resp.status = 307
Stopped(resp) == resp.status = 401 /\ resp.error \in {"Not authenticated", "Invalid session"}

\* C27: a request for a page other than /login is redirected when it has no
\* session cookie or one that is not JSON and is served when its cookie is
\* JSON; a request to an /api/ path other than the login endpoint with a
\* cookie that is not JSON is answered 401 'Invalid session'; /login and the
\* login endpoint are never redirected or stopped.
PagesNeedSession ==
    [][Answers
       => LET req == request'
              api == StartsWith(req.path, <<"api">>)
              session == req.cookie.present /\ req.cookie.parsable
          IN /\ (~api /\ req.path \notin publicRoutes)
                   => IF session THEN response'.status = 200 ELSE Redirected(response')
             /\ (api /\ req.path # LoginPath /\ req.cookie.present /\ ~req.cookie.parsable)
                   => response'.status = 401 /\ response'.error = "Invalid session"
             /\ (req.path \in publicRoutes \/ req.path = LoginPath)
                   => ~Redirected(response') /\ ~Stopped(response')]_vars

(***************************************************************************)
(* The contract store with calls that overlap: a call sets its loading     *)
(* flag, awaits the server, and clears the flag when it goes on.  The tab  *)
(* has at most MaxWorkers calls under way.                                 *)
(***************************************************************************)
Tickets == 1..MaxWorkers

\* a call of the store that awaits the server
StoreCall(name, ticket, stage, contractId) ==
    [call |-> name, ticket |-> ticket, stage |-> stage, contractId |-> contractId]

FreeTickets == {t \in Tickets : \A call \in pending : call.ticket # t}

\* the calls that set isLoading
LoadingCalls == {"fetchContracts", "createContract", "deleteContract"}

StoreOnly == UNCHANGED <<server, jar, authStore, guard, page, form, workflow>>
StoreAndFile == UNCHANGED <<jar, authStore, guard, page, form, workflow>>

\* a call starts: set({ isLoading: true }) or set({ isContractLoading:
\* true }), then the fetch
StoreCallStarts ==
    \E t \in FreeTickets, name \in LoadingCalls \cup {"updateContract"},
       id \in {Undefined} \cup {contractStore.contracts[i].id : i \in 1..Len(contractStore.contracts)} :
        /\ (name \in {"deleteContract", "updateContract"}) = (id # Undefined)
        /\ contractStore' = IF name \in LoadingCalls
                            THEN [contractStore EXCEPT !.isLoading = TRUE]
                            ELSE [contractStore EXCEPT !.isContractLoading = TRUE]
        /\ pending' = pending \cup {StoreCall(name, t, "sent", id)}
        /\ StoreOnly

\* fetchContracts goes on after its fetch
FetchContractsSettles ==
    \E call \in pending, outcome \in Outcomes :
        LET req == Req("GET", ListPath, jar, EmptyBody)
            got == Fetch(req, ListGET(req, contracts), outcome)
        IN /\ call.call = "fetchContracts"
           /\ Stores(got.contracts)
           /\ contractStore' = fetchContractsDone(contractStore, got.result)
           /\ pending' = pending \ {call}
           /\ StoreAndFile

\* createContract goes on after its POST: fetchContracts is called when the
\* contract was created, and sets isLoading once more
CreateContractPosted ==
    \E call \in pending, outcome \in Outcomes :
        LET req == Req("POST", ListPath, jar, ObjectBody(Fields(FirstDetails)))
            got == Fetch(req, CreatePOST(req, contracts, clock), outcome)
        IN /\ call.call = "createContract"
           /\ call.stage = "sent"
           /\ Stores(got.contracts)
           /\ contractStore' = [contractStore EXCEPT !.isLoading = got.result.success]
           /\ pending' = (pending \ {call})
                            \cup (IF got.result.success
                                  THEN {[call EXCEPT !.stage = "refreshing"]} ELSE {})
           /\ StoreAndFile

\* createContract goes on after its fetchContracts: set({ isLoading: false })
CreateContractRefreshed ==
    \E call \in pending, outcome \in Outcomes :
        LET req == Req("GET", ListPath, jar, EmptyBody)
            got == Fetch(req, ListGET(req, contracts), outcome)
        IN /\ call.call = "createContract"
           /\ call.stage = "refreshing"
           /\ Stores(got.contracts)
           /\ contractStore' = fetchContractsDone(contractStore, got.result)
           /\ pending' = pending \ {call}
           /\ StoreAndFile

\* deleteContract goes on after its fetch
DeleteContractSettles ==
    \E call \in pending, outcome \in Outcomes :
        LET req == Req("DELETE", ContractPath(call.contractId.s[1]), jar, EmptyBody)
            got == Fetch(req, ContractDELETE(req, contracts, clock), outcome)
        IN /\ call.call = "deleteContract"
           /\ Stores(got.contracts)
           /\ contractStore' = deleteContractDone(contractStore, call.contractId, got.result)
           /\ pending' = pending \ {call}
           /\ StoreAndFile

\* updateContract goes on after its fetch
UpdateContractSettles ==
    \E call \in pending, outcome \in Outcomes :
        LET updates == [clientName |-> Str(<<"b">>)]
            req == Req("PUT", ContractPath(call.contractId.s[1]), jar, ObjectBody(Fields(updates)))
            got == Fetch(req, ContractPUT(req, contracts, clock), outcome)
        IN /\ call.call = "updateContract"
           /\ Stores(got.contracts)
           /\ contractStore' = updateContractDone(contractStore, call.contractId, updates,
                                                  got.result)
           /\ pending' = pending \ {call}
           /\ StoreAndFile

NextStore ==
    \/ StoreCallStarts
    \/ FetchContractsSettles
    \/ CreateContractPosted
    \/ CreateContractRefreshed
    \/ DeleteContractSettles
    \/ UpdateContractSettles

SpecStore == InitEdit /\ [][NextStore]_vars

\* C28: while isLoading is false no fetchContracts, createContract or
\* deleteContract call is under way, and when no call of the store is under
\* way isLoading and isContractLoading are both false.
LoadingFlagsFollowCalls ==
    /\ ~contractStore.isLoading => \A call \in pending : call.call \notin LoadingCalls
    /\ pending = {} => ~contractStore.isLoading /\ ~contractStore.isContractLoading
====
